---- MODULE Spec2Model ----
(***************************************************************************)
(* A model of the simulation core of the RTS engine: GameEngine (engine.py)*)
(* with its roster, camera, pause and win flag, Unit and Building           *)
(* (entities.py), GameMap and Tile (map.py) and ResourceManager             *)
(* (resources.py).                                                           *)
(*                                                                           *)
(* Numbers.  Python floats are modelled in fixed point: unit positions,     *)
(* distances and health are integers counting 1/Res of a pixel or of a      *)
(* health point.  Tile coordinates, screen points and the camera are whole  *)
(* numbers (the zoom level stays 1.0).  Comparisons of a distance with a    *)
(* radius are made on the squares, which is exact; only the length of a     *)
(* movement step needs a square root (Isqrt).                                *)
(***************************************************************************)
EXTENDS Integers, Sequences, FiniteSets, TLC

\* ---------------------------------------------------------------- bounds
Res == 10             \* fixed-point resolution: stored value = real value * Res
MaxSpawns == 6        \* units the player may spawn in one behaviour
MaxPlacements == 2    \* buildings the player may place in one behaviour
MaxTicks == 65        \* unpaused ticks in one behaviour
CmdPeriod == 60       \* the player acts only on every CmdPeriod-th tick
MaxMarchers == 2      \* units the player may spawn in a march
MaxDrillUnits == 1    \* units the player may spawn in a drill
MaxProbe == 2         \* tiles probed on either side of a border of the map
MaxStock == 1600      \* add_resource is not called beyond this quantity

\* ------------------------------------------------------ program constants
MapWidth == 71
MapHeight == 71
TileStepX == 32
TileStepY == 16
TileSize == 64
ScreenWidth == 1280
ScreenHeight == 720
CameraPadding == 100
UnitHealth == 100
UnitSpeed == 2
UnitAttackDamage == 10
UnitSize == 32
BuildingHealth == 100
unit_radius == 16
attack_range == 30
min_dist == 28
AggroRange == 400
UnitDamagePct == 10       \* attack_damage * 0.1, in percent
SelfDamagePct == 5        \* attack_damage * 0.05
BuildingDamagePct == 8    \* attack_damage * 0.08
ProductionPeriod == 30
ProductionAmount == 10
CameraSpeed == 10
SelectRadius == 20
FormationSpacing == 40

None == << >>          \* Python None where an object, a tile or a point is expected
NoType == "None"       \* Python None where a type name is expected

\* ------------------------------------------------------------- arithmetic
Abs(n) == IF n < 0 THEN 0 - n ELSE n
Min(a, b) == IF a < b THEN a ELSE b
Max(a, b) == IF a > b THEN a ELSE b
Sq(n) == n * n

\* Python int(): truncation toward zero of the quotient n / d (d > 0).
TruncDiv(n, d) == IF n >= 0 THEN n \div d ELSE 0 - ((0 - n) \div d)

\* The quotient n / d (d > 0) rounded to the nearest integer.
RoundDiv(n, d) == IF n >= 0 THEN (2 * n + d) \div (2 * d)
                  ELSE 0 - ((2 * (0 - n) + d) \div (2 * d))

RECURSIVE IsqrtIn(_, _, _)
IsqrtIn(n, lo, hi) ==
    IF lo >= hi THEN lo
    ELSE LET mid == (lo + hi + 1) \div 2
         IN IF mid * mid <= n THEN IsqrtIn(n, mid, hi) ELSE IsqrtIn(n, lo, mid - 1)

\* floor(sqrt(n)) for 0 <= n < 2^31
Isqrt(n) == IsqrtIn(n, 0, 46340)

\* ------------------------------------------------------------------ state
VARIABLES
    entities,            \* GameEngine.entities: the roster, in processing order
    units,               \* GameEngine.units
    buildings,           \* GameEngine.buildings
    unitObj,             \* the Unit objects ever created, by identity
    buildingObj,         \* the Building objects of the roster, by identity
    selected_entities,   \* GameEngine.selected_entities
    tile_type,           \* Tile.tile_type of the tiles that are not GRASS
    tile_building,       \* Tile.building of the tiles where it is set
    tile_unit,           \* Tile.unit of the tiles where it is set
    camera_x, camera_y,  \* GameEngine.camera_x, camera_y (pixels)
    zoom_level,          \* GameEngine.zoom_level, in tenths
    paused,              \* GameEngine.paused
    spawning_swordsman,  \* GameEngine.spawning_swordsman
    building_to_place,   \* GameEngine.building_to_place
    placement_preview,   \* GameEngine.placement_preview: a Building outside the roster
    win_message_shown,   \* GameEngine.win_message_shown
    resources,           \* ResourceManager.resources
    probe,               \* history: the last map query, its arguments and result
    last,                \* history: the operation that led to this state
    ticks,               \* history: unpaused ticks so far
    spawns,              \* history: units spawned by the player so far
    placements           \* history: buildings placed by the player so far

vars == <<entities, units, buildings, unitObj, buildingObj, selected_entities,
          tile_type, tile_building, tile_unit, camera_x, camera_y, zoom_level,
          paused, spawning_swordsman, building_to_place, placement_preview,
          win_message_shown, resources, probe, last, ticks, spawns, placements>>

\* Object identities.
UnitId(n) == <<"Unit", n>>
BuildingId(n) == <<"Building", n>>
IsUnit(e) == e[1] = "Unit"
IsBuilding(e) == e[1] = "Building"

\* ------------------------------------------------------------ sequences
RECURSIVE SeqFilter(_, _)
SeqFilter(s, keep) ==
    IF s = << >> THEN << >>
    ELSE IF Head(s) \in keep THEN <<Head(s)>> \o SeqFilter(Tail(s), keep)
    ELSE SeqFilter(Tail(s), keep)

Range(s) == {s[i] : i \in 1..Len(s)}

\* ------------------------------------------------------------- entities
\* Entity.__init__ / Unit.__init__: a unit at world position (x, y), in 1/Res pixels.
NewUnit(x, y, unit_type, team) ==
    [x |-> x, y |-> y, width |-> UnitSize, height |-> UnitSize, selected |-> FALSE,
     unit_type |-> unit_type, health |-> UnitHealth * Res, max_health |-> UnitHealth * Res,
     speed |-> UnitSpeed * Res, target_pos |-> None,
     attack_damage |-> UnitAttackDamage, team |-> team]

\* Building.__init__: the footprint in pixels follows from the type.
BuildingWidth(building_type) ==
    IF building_type \in {"Stonekeep", "EnemyStonekeep"} THEN 2 * TileSize
    ELSE IF building_type = "Stockpile" THEN 4 * TileSize
    ELSE TileSize

BuildingHeight(building_type) ==
    IF building_type \in {"Stonekeep", "EnemyStonekeep"} THEN 2 * TileSize
    ELSE IF building_type = "Stockpile" THEN TileSize \div 2
    ELSE TileSize

\* Entity.__init__ computes base_screen_x and base_screen_y once, from the
\* position given to the constructor; nothing assigns them afterwards.
NewBuilding(x, y, building_type, resource_manager) ==
    [x |-> x, y |-> y,
     base_screen_x |-> (x - y) * TileStepX, base_screen_y |-> (x + y) * TileStepY,
     width |-> BuildingWidth(building_type),
     height |-> BuildingHeight(building_type), selected |-> FALSE,
     building_type |-> building_type, health |-> BuildingHealth * Res,
     max_health |-> BuildingHealth * Res, resource_timer |-> 0,
     resource_manager |-> resource_manager]

\* ------------------------------------------------------------------ map
\* The isometric position of tile (tx, ty), in 1/Res pixels.
IsoX(tx, ty) == (tx - ty) * TileStepX * Res
IsoY(tx, ty) == (tx + ty) * TileStepY * Res

\* GameMap.get_tile_at without the lower bounds of line 180.
GetTileAtUnchecked(x, y) ==
    IF x < MapWidth /\ y < MapHeight THEN <<x, y>> ELSE None

\* GameMap.get_tile_at: the tile, or None outside the map.
GetTileAt(x, y) ==
    IF 0 <= x /\ x < MapWidth /\ 0 <= y /\ y < MapHeight THEN <<x, y>> ELSE None

\* (s - camera) / zoom_level for s in 1/Res pixels, the camera in pixels and the
\* zoom in tenths.
Unproject(s, camera, zoom) == RoundDiv((s - camera * Res) * 10, zoom)

\* GameMap.get_tile_at_screen_pos without the division by 2 of lines 191-192.
GetTileAtScreenPosUnhalved(screen_x, screen_y, zoom, cam_x, cam_y) ==
    LET sx == Unproject(screen_x, cam_x, zoom)
        sy == Unproject(screen_y, cam_y, zoom)
        tile_x == TruncDiv(sx + 2 * sy, TileStepX * Res)
        tile_y == TruncDiv(2 * sy - sx, TileStepX * Res)
    IN GetTileAt(tile_x, tile_y)

\* GameMap.get_tile_at_screen_pos: int() truncates toward zero.
\* (sx/32 + sy/16) / 2 = (sx + 2 sy) / 64 and (sy/16 - sx/32) / 2 = (2 sy - sx) / 64.
GetTileAtScreenPos(screen_x, screen_y, zoom, cam_x, cam_y) ==
    LET sx == Unproject(screen_x, cam_x, zoom)
        sy == Unproject(screen_y, cam_y, zoom)
        tile_x == TruncDiv(sx + 2 * sy, 2 * TileStepX * Res)
        tile_y == TruncDiv(2 * sy - sx, 2 * TileStepX * Res)
    IN GetTileAt(tile_x, tile_y)

TileTypeOf(t) == IF t \in DOMAIN tile_type THEN tile_type[t] ELSE "GRASS"
TileBuildingOf(tb, t) == IF t \in DOMAIN tb THEN tb[t] ELSE None

\* GameMap.can_build_at without the tile.building test of line 205.
RECURSIVE CanBuildFromIgnoringBuildings(_, _, _, _, _, _)
CanBuildFromIgnoringBuildings(x, y, width, height, dx, dy) ==
    IF dy >= height THEN TRUE
    ELSE IF dx >= width THEN CanBuildFromIgnoringBuildings(x, y, width, height, 0, dy + 1)
    ELSE LET tile == GetTileAt(x + dx, y + dy)
         IN IF tile = None \/ TileTypeOf(tile) # "GRASS"
            THEN FALSE
            ELSE CanBuildFromIgnoringBuildings(x, y, width, height, dx + 1, dy)

\* GameMap.can_build_at: the loops over dy and dx, returning at the first tile
\* that is missing, not GRASS or built on.
RECURSIVE CanBuildFrom(_, _, _, _, _, _)
CanBuildFrom(x, y, width, height, dx, dy) ==
    IF dy >= height THEN TRUE
    ELSE IF dx >= width THEN CanBuildFrom(x, y, width, height, 0, dy + 1)
    ELSE LET tile == GetTileAt(x + dx, y + dy)
         IN IF tile = None \/ TileTypeOf(tile) # "GRASS"
               \/ TileBuildingOf(tile_building, tile) # None
            THEN FALSE
            ELSE CanBuildFrom(x, y, width, height, dx + 1, dy)

CanBuildAt(x, y, width, height) == CanBuildFrom(x, y, width, height, 0, 0)

\* Function update that also extends the domain.
Put(f, k, v) == [a \in DOMAIN f \cup {k} |-> IF a = k THEN v ELSE f[a]]
Drop(f, ks) == [a \in DOMAIN f \ ks |-> f[a]]

\* ---------------------------------------------------------- Unit.update
\* Squared distance between two points.
Dist2(ax, ay, bx, by) == Sq(ax - bx) + Sq(ay - by)

\* dist < r and dist <= r, for a radius r in pixels, decided on the squares.
Within(d2, r) == d2 < Sq(r * Res)
WithinOrAt(d2, r) == d2 <= Sq(r * Res)

\* Lines 209-210 and 233 with blows that do no damage.
DamageNone(attack_damage, pct) == 0

\* Lines 209-210 with one coefficient, 0.1, for both sides.
DamageFlat(attack_damage, pct) == (attack_damage * UnitDamagePct * Res) \div 100

\* attack_damage * pct / 100, in 1/Res health points.
Damage(attack_damage, pct) == (attack_damage * pct * Res) \div 100

\* Lines 205-212 without line 211: combat leaves the destination set.
RECURSIVE AttackUnitsKeepTarget(_, _, _, _, _)
AttackUnitsKeepTarget(uo, self, all_units, i, did) ==
    IF i > Len(all_units) THEN <<uo, did>>
    ELSE LET other == all_units[i]
             hit == /\ other # self
                    /\ uo[other].team # uo[self].team
                    /\ Within(Dist2(uo[self].x, uo[self].y, uo[other].x, uo[other].y),
                              attack_range)
         IN IF hit
            THEN LET u1 == [uo EXCEPT
                              ![other].health = @ - Damage(uo[self].attack_damage, UnitDamagePct)]
                     u2 == [u1 EXCEPT
                              ![self].health = @ - Damage(u1[other].attack_damage, SelfDamagePct)]
                 IN AttackUnitsKeepTarget(u2, self, all_units, i + 1, TRUE)
            ELSE AttackUnitsKeepTarget(uo, self, all_units, i + 1, did)

\* Lines 205-212: the scan of all_units from index i on.  Each opposing unit
\* closer than attack_range loses self.attack_damage * 0.1, self loses
\* other.attack_damage * 0.05 and its destination.  uo is the heap as mutated so
\* far; the result is <<heap, did_attack_unit>>.
RECURSIVE AttackUnits(_, _, _, _, _)
AttackUnits(uo, self, all_units, i, did) ==
    IF i > Len(all_units) THEN <<uo, did>>
    ELSE LET other == all_units[i]
             hit == /\ other # self
                    /\ uo[other].team # uo[self].team
                    /\ Within(Dist2(uo[self].x, uo[self].y, uo[other].x, uo[other].y),
                              attack_range)
         IN IF hit
            THEN LET u1 == [uo EXCEPT
                              ![other].health = @ - Damage(uo[self].attack_damage, UnitDamagePct)]
                     u2 == [u1 EXCEPT
                              ![self].health = @ - Damage(u1[other].attack_damage, SelfDamagePct),
                              ![self].target_pos = None]
                 IN AttackUnits(u2, self, all_units, i + 1, TRUE)
            ELSE AttackUnits(uo, self, all_units, i + 1, did)

\* "enemy" in building_type.lower()
HasEnemyInName(building_type) == building_type \in {"EnemyStonekeep"}

\* Lines 220-225 with every building taken as hostile.
IsEnemyBuildingAlways(team, building_type) == TRUE

\* Lines 220-225: the naming rule.
IsEnemyBuilding(team, building_type) ==
    \/ team = "player" /\ HasEnemyInName(building_type)
    \/ team = "enemy" /\ ~HasEnemyInName(building_type)

\* min(max(p, lo), lo + size)
Clamp(p, lo, size) == Min(Max(p, lo), lo + size)

\* Squared distance from (px, py) to the closest point of the rectangle that the
\* code builds from building.x, building.y (tile coordinates, read as pixels)
\* and building.width, building.height (pixels).
RectDist2(px, py, b) ==
    LET bx == b.x * Res
        by == b.y * Res
        closest_x == Clamp(px, bx, b.width * Res)
        closest_y == Clamp(py, by, b.height * Res)
    IN Dist2(px, py, closest_x, closest_y)

\* Lines 217-235: the scan of self.all_buildings from index i on; the result is
\* <<unit heap, building heap, did_attack_building>>.
RECURSIVE AttackBuildings(_, _, _, _, _, _)
AttackBuildings(uo, bo, self, all_buildings, i, did) ==
    IF i > Len(all_buildings) THEN <<uo, bo, did>>
    ELSE LET b == all_buildings[i]
             hit == /\ IsEnemyBuilding(uo[self].team, bo[b].building_type)
                    /\ WithinOrAt(RectDist2(uo[self].x, uo[self].y, bo[b]), unit_radius)
         IN IF hit
            THEN AttackBuildings(
                     [uo EXCEPT ![self].target_pos = None],
                     [bo EXCEPT ![b].health = @ - Damage(uo[self].attack_damage, BuildingDamagePct)],
                     self, all_buildings, i + 1, TRUE)
            ELSE AttackBuildings(uo, bo, self, all_buildings, i + 1, did)

\* Lines 247-253 without the test of line 250.
BlockedByUnitNever(uo, self, all_units, next_x, next_y) == FALSE

\* Lines 247-253 with a separation wider than the attack range.
BlockedByUnitWide(uo, self, all_units, next_x, next_y) ==
    \E i \in 1..Len(all_units) :
        /\ all_units[i] # self
        /\ Within(Dist2(next_x, next_y, uo[all_units[i]].x, uo[all_units[i]].y),
                  min_dist + attack_range)

\* Lines 247-253: is the candidate position closer than min_dist to another unit?
BlockedByUnit(uo, self, all_units, next_x, next_y) ==
    \E i \in 1..Len(all_units) :
        /\ all_units[i] # self
        /\ Within(Dist2(next_x, next_y, uo[all_units[i]].x, uo[all_units[i]].y), min_dist)

\* Lines 255-265: is it closer than unit_radius to a building's rectangle?
BlockedByBuilding(bo, all_buildings, next_x, next_y) ==
    \E i \in 1..Len(all_buildings) :
        Within(RectDist2(next_x, next_y, bo[all_buildings[i]]), unit_radius)

\* Lines 243-244 without the division by distance: the whole vector in one step.
StepCoordWhole(from, d, distance, speed) == from + d

\* Lines 243-244: self.x + (dx / distance) * self.speed, rounded to 1/Res.
StepCoord(from, d, distance, speed) == from + RoundDiv(d * speed, distance)

\* Lines 238-272: the movement of a unit that did not attack.
Move(uo, bo, self, all_units, all_buildings) ==
    LET u == uo[self]
        dx == u.target_pos[1] - u.x
        dy == u.target_pos[2] - u.y
        d2 == Sq(dx) + Sq(dy)
    IN IF d2 > Sq(u.speed)
       THEN LET distance == Isqrt(d2)
                next_x == StepCoord(u.x, dx, distance, u.speed)
                next_y == StepCoord(u.y, dy, distance, u.speed)
                blocked == \/ BlockedByUnit(uo, self, all_units, next_x, next_y)
                           \/ BlockedByBuilding(bo, all_buildings, next_x, next_y)
            IN IF blocked THEN [uo EXCEPT ![self].target_pos = None]
               ELSE [uo EXCEPT ![self].x = next_x, ![self].y = next_y]
       ELSE [uo EXCEPT ![self].target_pos = None]

\* Unit.update without line 274.
ClampHealthNone(health) == health

\* Line 274: self.health = max(0, self.health)
ClampHealth(health) == Max(0, health)

\* Unit.update(all_units) with self.all_buildings = all_buildings: the result is
\* <<unit heap, building heap>>.
UnitUpdate(uo, bo, self, all_units, all_buildings) ==
    LET a1 == AttackUnits(uo, self, all_units, 1, FALSE)
        a2 == AttackBuildings(a1[1], bo, self, all_buildings, 1, FALSE)
        u2 == a2[1]
        u3 == IF u2[self].target_pos # None /\ ~(a1[2] \/ a2[3])
              THEN Move(u2, a2[2], self, all_units, all_buildings)
              ELSE u2
    IN <<[u3 EXCEPT ![self].health = ClampHealth(@)], a2[2]>>

\* ------------------------------------------------------ Building.update
\* Building.update with every building type producing WOOD.
ProducedResourceAny(building_type) == "WOOD"

ProducedResource(building_type) ==
    IF building_type = "Woodcutter" THEN "WOOD"
    ELSE IF building_type = "Quarry" THEN "STONE"
    ELSE IF building_type = "Farm" THEN "FOOD"
    ELSE NoType

\* Building.update without the resets of lines 112, 117 and 122.
BuildingUpdateNoReset(bo, res, self) ==
    LET b == bo[self]
        kind == ProducedResource(b.building_type)
    IN IF kind # NoType /\ b.resource_manager
       THEN IF b.resource_timer + 1 >= ProductionPeriod
            THEN <<[bo EXCEPT ![self].resource_timer = @ + 1],
                   [res EXCEPT ![kind] = @ + ProductionAmount]>>
            ELSE <<[bo EXCEPT ![self].resource_timer = @ + 1], res>>
       ELSE <<bo, res>>

\* Building.update(dt = 1): the result is <<building heap, resources>>.
BuildingUpdate(bo, res, self) ==
    LET b == bo[self]
        kind == ProducedResource(b.building_type)
    IN IF kind # NoType /\ b.resource_manager
       THEN IF b.resource_timer + 1 >= ProductionPeriod
            THEN <<[bo EXCEPT ![self].resource_timer = 0],
                   [res EXCEPT ![kind] = @ + ProductionAmount]>>
            ELSE <<[bo EXCEPT ![self].resource_timer = @ + 1], res>>
       ELSE <<bo, res>>

\* ---------------------------------------------------- GameEngine.update
\* Lines 480-487 without the aggro range of line 485.
RECURSIVE NearestPlayerAnywhere(_, _, _, _, _)
NearestPlayerAnywhere(uo, enemy, us, i, best) ==
    IF i > Len(us) THEN best[1]
    ELSE LET unit == us[i]
             d2 == Dist2(uo[enemy].x, uo[enemy].y, uo[unit].x, uo[unit].y)
             nearer == /\ uo[unit].team = "player"
                       /\ (best[1] = None \/ d2 < best[2])
         IN NearestPlayerAnywhere(uo, enemy, us, i + 1,
                                  IF nearer THEN <<unit, d2>> ELSE best)

\* Lines 480-487: the player unit nearest to enemy among self.units from index i
\* on, closer than the aggro range; the first of equally near ones is kept.
\* best is <<target, squared distance>>.
RECURSIVE NearestPlayer(_, _, _, _, _)
NearestPlayer(uo, enemy, us, i, best) ==
    IF i > Len(us) THEN best[1]
    ELSE LET unit == us[i]
             d2 == Dist2(uo[enemy].x, uo[enemy].y, uo[unit].x, uo[unit].y)
             nearer == /\ uo[unit].team = "player"
                       /\ Within(d2, AggroRange)
                       /\ (best[1] = None \/ d2 < best[2])
         IN NearestPlayer(uo, enemy, us, i + 1, IF nearer THEN <<unit, d2>> ELSE best)

\* Lines 477-489: every enemy unit of self.units is sent to its nearest player
\* unit.  The phase moves nobody, so the units can be treated independently.
EnemyTargeting(uo, us) ==
    [u \in DOMAIN uo |->
        IF u \in Range(us) /\ uo[u].team = "enemy"
        THEN LET target == NearestPlayer(uo, u, us, 1, <<None, 0>>)
             IN IF target # None
                THEN [uo[u] EXCEPT !.target_pos = <<uo[target].x, uo[target].y>>]
                ELSE uo[u]
        ELSE uo[u]]

KeyDelta(keys, minus, plus) ==
    (IF plus \in keys THEN 1 ELSE 0) - (IF minus \in keys THEN 1 ELSE 0)

\* Lines 492-499: the arrow keys move the camera by CAMERA_SPEED / zoom_level.
CameraAfterKeys(camera, keys, plus, minus, zoom) ==
    camera + KeyDelta(keys, minus, plus) * RoundDiv(CameraSpeed * 10, zoom)

\* get_camera_limits and clamp_camera_position, for one axis.
ClampCamera(camera, screen_size, tile_step, map_size, zoom) ==
    LET map_extent == (map_size * tile_step * zoom) \div 10
        lo == screen_size - map_extent - CameraPadding
        hi == CameraPadding
    IN Max(lo, Min(hi, camera))

\* Lines 502-520: W, A, S, D move every selected entity that has a speed.
WasdMove(uo, sel, keys) ==
    LET dx == KeyDelta(keys, "a", "d")
        dy == KeyDelta(keys, "w", "s")
        norm1000 == Isqrt((Sq(dx) + Sq(dy)) * 1000000)
    IN IF dx = 0 /\ dy = 0 THEN uo
       ELSE [u \in DOMAIN uo |->
                IF u \in Range(sel)
                THEN [uo[u] EXCEPT !.x = @ + RoundDiv(dx * uo[u].speed * 1000, norm1000),
                                   !.y = @ + RoundDiv(dy * uo[u].speed * 1000, norm1000)]
                ELSE uo[u]]

\* Lines 530-541: the loop over self.entities from index i on.  st carries the
\* heaps, the stockpile and the entities collected for removal.
RECURSIVE UpdateEntities(_, _, _, _, _)
UpdateEntities(ents, i, st, all_units, all_buildings) ==
    IF i > Len(ents) THEN st
    ELSE LET entity == ents[i]
         IN IF IsUnit(entity)
            THEN LET r == UnitUpdate(st.uo, st.bo, entity, all_units, all_buildings)
                     gone == r[1][entity].health <= 0
                 IN UpdateEntities(ents, i + 1,
                        [st EXCEPT !.uo = r[1], !.bo = r[2],
                                   !.to_remove = IF gone THEN @ \cup {entity} ELSE @],
                        all_units, all_buildings)
            ELSE LET r == BuildingUpdate(st.bo, st.res, entity)
                     gone == r[1][entity].health <= 0
                 IN UpdateEntities(ents, i + 1,
                        [st EXCEPT !.bo = r[1], !.res = r[2],
                                   !.to_remove_buildings = IF gone THEN @ \cup {entity} ELSE @],
                        all_units, all_buildings)

\* Lines 526-541.
UpdateAll(ents, uo, bo, res) ==
    UpdateEntities(ents, 1,
        [uo |-> uo, bo |-> bo, res |-> res, to_remove |-> {}, to_remove_buildings |-> {}],
        SeqFilter(ents, {e \in Range(ents) : IsUnit(e)}),
        SeqFilter(ents, {e \in Range(ents) : IsBuilding(e)}))

\* Lines 543-563: list.remove for every collected entity.
RemoveAll(list, gone) == SeqFilter(list, Range(list) \ gone)

\* Lines 543-563 without the loops over the tiles of lines 549-552 and 560-563.
ClearTilesNever(refs, gone) == refs

\* Lines 549-552 and 560-563: the tile references to removed entities are cleared.
ClearTiles(refs, gone) == Drop(refs, {t \in DOMAIN refs : refs[t] \in gone})

\* The enemy swordsmen of self.units whatever their health: line 577 without
\* its health filter.
EnemySwordsmenInRoster(us, uo) ==
    {u \in Range(us) : /\ uo[u].unit_type = "Swordsman"
                       /\ uo[u].team = "enemy"}

\* Line 577: the enemy swordsmen of self.units with health above zero.
EnemySwordsmen(us, uo) ==
    {u \in Range(us) : /\ uo[u].unit_type = "Swordsman"
                       /\ uo[u].team = "enemy"
                       /\ uo[u].health > 0}

\* Lines 576-579 without the guard of line 576: the flag is assigned on every
\* call, and only a call that finds it unset can set it.
WinCheckUnguarded(won, us, uo) ==
    ~won /\ EnemySwordsmen(us, uo) = {}

\* Lines 576-579.
WinCheck(won, us, uo) ==
    IF ~won THEN EnemySwordsmen(us, uo) = {} ELSE won

\* The tile a click or the mouse at screen point pos (pixels) resolves to:
\* lines 387-391, 411-413 and 568-570 convert pos to world coordinates and hand
\* the result to get_tile_at_screen_pos together with the zoom and the camera.
TileUnderMouse(pos, zoom, cam_x, cam_y) ==
    LET world_x == Unproject(pos[1] * Res, cam_x, zoom)
        world_y == Unproject(pos[2] * Res, cam_y, zoom)
    IN GetTileAtScreenPos(world_x, world_y, zoom, cam_x, cam_y)

PreviewId == BuildingId(0)

\* GameEngine.update, lines 477-579: the body that line 474 skips while paused,
\* and the win check after it.
Simulate(keys, mouse) ==
    LET targeted == EnemyTargeting(unitObj, units)
        cam_x == ClampCamera(CameraAfterKeys(camera_x, keys, "LEFT", "RIGHT", zoom_level),
                             ScreenWidth, TileStepX, MapWidth, zoom_level)
        cam_y == ClampCamera(CameraAfterKeys(camera_y, keys, "UP", "DOWN", zoom_level),
                             ScreenHeight, TileStepY, MapHeight, zoom_level)
        moved == WasdMove(targeted, selected_entities, keys)
        st == UpdateAll(entities, moved, buildingObj, resources)
        gone == st.to_remove \cup st.to_remove_buildings
        tile == IF placement_preview # None
                THEN TileUnderMouse(mouse, zoom_level, cam_x, cam_y)
                ELSE None
        us == RemoveAll(units, st.to_remove)
    IN /\ entities' = RemoveAll(entities, gone)
       /\ units' = us
       /\ buildings' = RemoveAll(buildings, st.to_remove_buildings)
       /\ unitObj' = st.uo
       /\ buildingObj' = IF tile # None
                         THEN [st.bo EXCEPT ![PreviewId].x = tile[1],
                                            ![PreviewId].y = tile[2]]
                         ELSE st.bo
       /\ tile_unit' = ClearTiles(tile_unit, st.to_remove)
       /\ tile_building' = ClearTiles(tile_building, st.to_remove_buildings)
       /\ resources' = st.res
       /\ camera_x' = cam_x
       /\ camera_y' = cam_y
       /\ ticks' = ticks + 1
       /\ win_message_shown' = WinCheck(win_message_shown, us, st.uo)

\* GameEngine.update while paused: lines 576-579 alone.
Frozen ==
    /\ UNCHANGED <<entities, units, buildings, unitObj, buildingObj, tile_building,
                   tile_unit, camera_x, camera_y, resources, ticks>>
    /\ win_message_shown' = WinCheck(win_message_shown, units, unitObj)

\* GameEngine.update without the test of line 474.
TickIgnoringPause(keys, mouse) ==
    /\ ticks < MaxTicks
    /\ Simulate(keys, mouse)
    /\ last' = "tick"
    /\ UNCHANGED <<selected_entities, tile_type, probe, zoom_level, paused, spawning_swordsman,
                   building_to_place, placement_preview, spawns, placements>>

\* GameEngine.update with the keys held down and the mouse at screen point mouse.
Tick(keys, mouse) ==
    /\ paused \/ ticks < MaxTicks
    /\ IF paused THEN Frozen ELSE Simulate(keys, mouse)
    /\ last' = "tick"
    /\ UNCHANGED <<selected_entities, tile_type, probe, zoom_level, paused, spawning_swordsman,
                   building_to_place, placement_preview, spawns, placements>>

\* GameEngine.update in a tick in which the update of the k-th entity of the
\* roster raises: the exception leaves the loop of line 530 and the try block of
\* line 473 and is caught at line 580.  Lines 477-524 and the updates of the
\* entities before the k-th have run; the rest of the loop, the removals of
\* lines 543-563, the preview of lines 566-573 and the win check of lines
\* 576-579 have not.
TickFailing(keys, mouse, k) ==
    /\ ~paused /\ ticks < MaxTicks
    /\ k \in 1..Len(entities)
    /\ LET targeted == EnemyTargeting(unitObj, units)
           moved == WasdMove(targeted, selected_entities, keys)
           st == UpdateEntities(SubSeq(entities, 1, k - 1), 1,
                     [uo |-> moved, bo |-> buildingObj, res |-> resources,
                      to_remove |-> {}, to_remove_buildings |-> {}],
                     SeqFilter(entities, {e \in Range(entities) : IsUnit(e)}),
                     SeqFilter(entities, {e \in Range(entities) : IsBuilding(e)}))
       IN /\ unitObj' = st.uo
          /\ buildingObj' = st.bo
          /\ resources' = st.res
          /\ camera_x' = ClampCamera(CameraAfterKeys(camera_x, keys, "LEFT", "RIGHT", zoom_level),
                                     ScreenWidth, TileStepX, MapWidth, zoom_level)
          /\ camera_y' = ClampCamera(CameraAfterKeys(camera_y, keys, "UP", "DOWN", zoom_level),
                                     ScreenHeight, TileStepY, MapHeight, zoom_level)
    /\ ticks' = ticks + 1
    /\ last' = "tick_failed"
    /\ UNCHANGED <<entities, units, buildings, tile_building, tile_unit, win_message_shown,
                   selected_entities, tile_type, probe, zoom_level, paused,
                   spawning_swordsman, building_to_place, placement_preview,
                   spawns, placements>>

\* -------------------------------------------------------------- commands
\* UserInterface.setup_buttons: x, y, width, height, text.
Buttons ==
    << <<10, 10, 100, 30, "Woodcutter">>, <<120, 10, 100, 30, "Quarry">>,
       <<230, 10, 100, 30, "Farm">>, <<10, 50, 100, 30, "Barracks">>,
       <<120, 50, 100, 30, "Archery">>, <<230, 50, 100, 30, "Swordsman">> >>

\* Button.handle_mouse: pygame.Rect.collidepoint.
ButtonHit(b, pos) ==
    /\ b[1] <= pos[1] /\ pos[1] < b[1] + b[3]
    /\ b[2] <= pos[2] /\ pos[2] < b[2] + b[4]

\* UserInterface.handle_mouse: the text of the first button under pos.
RECURSIVE ButtonFrom(_, _)
ButtonFrom(i, pos) ==
    IF i > Len(Buttons) THEN NoType
    ELSE IF ButtonHit(Buttons[i], pos) THEN Buttons[i][5]
    ELSE ButtonFrom(i + 1, pos)

UIHandleMouse(pos) == ButtonFrom(1, pos)

\* What the commands read and write of the engine, as one value.
Engine ==
    [entities |-> entities, units |-> units, buildings |-> buildings,
     uo |-> unitObj, bo |-> buildingObj, sel |-> selected_entities,
     tb |-> tile_building, tu |-> tile_unit,
     spawning |-> spawning_swordsman, btp |-> building_to_place,
     preview |-> placement_preview, spawns |-> spawns, placements |-> placements]

Commit(E) ==
    /\ entities' = E.entities
    /\ units' = E.units
    /\ buildings' = E.buildings
    /\ unitObj' = E.uo
    /\ buildingObj' = E.bo
    /\ selected_entities' = E.sel
    /\ tile_building' = E.tb
    /\ tile_unit' = E.tu
    /\ spawning_swordsman' = E.spawning
    /\ building_to_place' = E.btp
    /\ placement_preview' = E.preview
    /\ spawns' = E.spawns
    /\ placements' = E.placements

\* Entity.get_screen_pos of a building, in 1/Res pixels: base_screen times the
\* zoom.  The value memoized for a zoom (lines 27-28, 34) is this same product
\* of fields that never change, so a cached and a fresh result are equal.
GetScreenPos(building, zoom) ==
    << (building.base_screen_x * Res * zoom) \div 10,
       (building.base_screen_y * Res * zoom) \div 10 >>

\* Unit.get_screen_pos and Entity.get_screen_pos plus the camera, in 1/Res pixels.
ScreenX(E, e) ==
    IF IsUnit(e) THEN (E.uo[e].x * zoom_level) \div 10 + camera_x * Res
    ELSE GetScreenPos(E.bo[e], zoom_level)[1] + camera_x * Res

ScreenY(E, e) ==
    IF IsUnit(e) THEN (E.uo[e].y * zoom_level) \div 10 + camera_y * Res
    ELSE GetScreenPos(E.bo[e], zoom_level)[2] + camera_y * Res

\* distance < 20 * zoom_level between entity e on the screen and pos
NearClick(E, e, pos) ==
    Sq(pos[1] * Res - ScreenX(E, e)) + Sq(pos[2] * Res - ScreenY(E, e))
        < Sq((SelectRadius * Res * zoom_level) \div 10)

\* entity.selected = flag for every entity of the set es
SetSelected(E, es, flag) ==
    [E EXCEPT
       !.uo = [u \in DOMAIN E.uo |-> IF u \in es THEN [E.uo[u] EXCEPT !.selected = flag]
                                     ELSE E.uo[u]],
       !.bo = [b \in DOMAIN E.bo |-> IF b \in es THEN [E.bo[b] EXCEPT !.selected = flag]
                                     ELSE E.bo[b]]]

\* Lines 443-445, 226-228, 630-632.
Deselect(E) == [SetSelected(E, Range(E.sel), FALSE) EXCEPT !.sel = << >>]

\* get_formation_positions, with ceil(sqrt(count)) and ceil(count / cols):
\* the i-th position (from 0) of the grid around center, in 1/Res pixels.
CeilSqrt(n) == CHOOSE c \in 0..n : c * c >= n /\ (c = 0 \/ (c - 1) * (c - 1) < n)

FormationPosition(center, count, i) ==
    LET cols == CeilSqrt(count)
        rows == (count + cols - 1) \div cols
        r == i \div cols
        c == i % cols
    IN << (center[1] * Res) - (((cols - 1) * FormationSpacing * Res) \div 2)
              + c * FormationSpacing * Res,
          (center[2] * Res) - (((rows - 1) * FormationSpacing * Res) \div 2)
              + r * FormationSpacing * Res >>

\* Lines 379-381: move_to on the selected entities in turn; a selected Building
\* has no move_to and the AttributeError ends the loop.
RECURSIVE MoveSelected(_, _, _, _)
MoveSelected(uo, sel, pos, i) ==
    IF i > Len(sel) \/ IsBuilding(sel[i]) THEN uo
    ELSE MoveSelected([uo EXCEPT ![sel[i]].target_pos = FormationPosition(pos, Len(sel), i - 1)],
                      sel, pos, i + 1)

\* Lines 392-399 without the append to self.units of line 398.
SpawnAtUnlisted(E, tile) ==
    LET id == UnitId(Cardinality(DOMAIN E.uo) + 1)
    IN [E EXCEPT !.uo = Put(E.uo, id, NewUnit(IsoX(tile[1], tile[2]), IsoY(tile[1], tile[2]),
                                              "Swordsman", "player")),
                 !.entities = Append(@, id),
                 !.tu = Put(E.tu, tile, id),
                 !.spawns = @ + 1]

\* Lines 392-399: a player Swordsman on the clicked tile.
SpawnAt(E, tile) ==
    LET id == UnitId(Cardinality(DOMAIN E.uo) + 1)
    IN [E EXCEPT !.uo = Put(E.uo, id, NewUnit(IsoX(tile[1], tile[2]), IsoY(tile[1], tile[2]),
                                              "Swordsman", "player")),
                 !.entities = Append(@, id),
                 !.units = Append(@, id),
                 !.tu = Put(E.tu, tile, id),
                 !.spawns = @ + 1]

\* Lines 423-430: the new building and the tiles of its footprint.
PlaceAt(E, place_x, place_y, width, height) ==
    LET id == BuildingId(Cardinality(DOMAIN E.bo \ {PreviewId}) + 1)
        covered == {t \in {GetTileAt(place_x + dx, place_y + dy) :
                              dx \in 0..(width - 1), dy \in 0..(height - 1)} : t # None}
    IN [E EXCEPT !.bo = Put(E.bo, id, NewBuilding(place_x, place_y, E.btp, TRUE)),
                 !.entities = Append(@, id),
                 !.buildings = Append(@, id),
                 !.tb = [t \in DOMAIN E.tb \cup covered |->
                            IF t \in covered THEN id ELSE E.tb[t]],
                 !.placements = @ + 1]

\* Lines 443-456: the click selects what is under it.
RECURSIVE SelectNear(_, _, _)
SelectNear(E, pos, i) ==
    IF i > Len(E.entities) THEN E
    ELSE IF NearClick(E, E.entities[i], pos)
    THEN SelectNear([SetSelected(E, {E.entities[i]}, TRUE) EXCEPT
                        !.sel = Append(@, E.entities[i])], pos, i + 1)
    ELSE SelectNear(E, pos, i + 1)

\* Lines 384-407 without the test of line 392: a spawn click that resolves to no
\* tile spawns on tile (0, 0).
HandleMouseClickAnywhere(E, pos, button) ==
    IF E.spawning /\ ~(button = 3 /\ E.sel # << >>)
    THEN [SpawnAt(E, <<0, 0>>) EXCEPT !.spawning = FALSE, !.preview = None, !.btp = NoType]
    ELSE E

\* GameEngine.handle_mouse_click(pos, button)
HandleMouseClick(E, pos, button) ==
    IF button = 3 /\ E.sel # << >>
    THEN [E EXCEPT !.uo = MoveSelected(E.uo, E.sel, pos, 1)]
    ELSE LET tile == TileUnderMouse(pos, zoom_level, camera_x, camera_y)
         IN IF E.spawning
            THEN [(IF tile # None THEN SpawnAt(E, tile) ELSE E) EXCEPT
                     !.spawning = FALSE, !.preview = None, !.btp = NoType]
            ELSE IF E.preview # None /\ E.btp # NoType /\ tile # None
            THEN LET width == Max(1, E.bo[E.preview].width \div TileSize)
                     height == Max(1, E.bo[E.preview].height \div TileSize)
                     place_x == tile[1] - (width \div 2)
                     place_y == tile[2] - (height \div 2)
                 IN IF button = 1
                    THEN IF CanBuildAt(place_x, place_y, width, height)
                         THEN [PlaceAt(E, place_x, place_y, width, height) EXCEPT
                                  !.btp = NoType, !.preview = None]
                         ELSE E
                    ELSE IF button = 3
                    THEN [E EXCEPT !.btp = NoType, !.preview = None]
                    ELSE E
            ELSE SelectNear(Deselect(E), pos, 1)

\* Lines 176-193: a click on a UI button.
ButtonClicked(E, text) ==
    IF text = "Swordsman"
    THEN [E EXCEPT !.spawning = TRUE, !.preview = None, !.btp = NoType]
    ELSE [E EXCEPT !.btp = text, !.preview = PreviewId, !.spawning = FALSE,
                   !.bo = Put(E.bo, PreviewId, NewBuilding(0, 0, text, FALSE))]

\* Lines 210-228: the left button released while no drag is in progress.
MouseUp(E, pos) ==
    IF \E i \in 1..Len(E.entities) :
           IsUnit(E.entities[i]) /\ NearClick(E, E.entities[i], pos)
    THEN E
    ELSE Deselect(E)

\* handle_drag_select (the definition at line 621, which replaces the one at 335).
RECURSIVE SelectInRect(_, _, _, _)
SelectInRect(E, lo, hi, i) ==
    IF i > Len(E.entities) THEN E
    ELSE LET e == E.entities[i]
             inside == /\ IsUnit(e)
                       /\ lo[1] * Res <= ScreenX(E, e) /\ ScreenX(E, e) <= hi[1] * Res
                       /\ lo[2] * Res <= ScreenY(E, e) /\ ScreenY(E, e) <= hi[2] * Res
         IN IF inside
            THEN SelectInRect([SetSelected(E, {e}, TRUE) EXCEPT !.sel = Append(@, e)],
                              lo, hi, i + 1)
            ELSE SelectInRect(E, lo, hi, i + 1)

HandleDragSelect(E, start, end) ==
    SelectInRect(Deselect(E),
                 <<Min(start[1], end[1]), Min(start[2], end[2])>>,
                 <<Max(start[1], end[1]), Max(start[2], end[2])>>, 1)

\* handle_events, first loop: the left button pressed at pos and released at
\* release within one batch of events.
LeftClickResult(E, pos, release) ==
    LET text == UIHandleMouse(pos)
    IN IF text # NoType THEN MouseUp(ButtonClicked(E, text), release)
       ELSE IF (E.preview # None /\ E.btp # NoType) \/ E.spawning
       THEN MouseUp(HandleMouseClick(E, pos, 1), release)
       ELSE HandleDragSelect(E, pos, release)

Budget(E) == E.spawns <= MaxSpawns /\ E.placements <= MaxPlacements

LeftClick(pos, release) ==
    LET E == LeftClickResult(Engine, pos, release)
    IN /\ Budget(E)
       /\ Commit(E)
       /\ last' = IF E.spawns > spawns THEN "spawn"
                  ELSE IF E.placements > placements THEN "place"
                  ELSE IF UIHandleMouse(pos) # NoType THEN "left_click"
                  ELSE IF spawning_swordsman THEN "spawn_missed"
                  ELSE IF placement_preview # None /\ building_to_place # NoType
                  THEN "place_refused"
                  ELSE "left_click"
       /\ UNCHANGED <<tile_type, probe, camera_x, camera_y, zoom_level, paused,
                      win_message_shown, resources, ticks>>

\* handle_events, first loop: the right button pressed at pos.
RightClick(pos) ==
    LET E == HandleMouseClick(Engine, pos, 3)
    IN /\ Budget(E)
       /\ Commit(E)
       /\ last' = IF E.spawns > spawns THEN "spawn"
                  ELSE IF spawning_swordsman /\ selected_entities = << >> THEN "spawn_missed"
                  ELSE "right_click"
       /\ UNCHANGED <<tile_type, probe, camera_x, camera_y, zoom_level, paused,
                      win_message_shown, resources, ticks>>

\* handle_events: the Escape key.
KeyEscape ==
    /\ paused' = ~paused
    /\ last' = "escape"
    /\ UNCHANGED <<entities, units, buildings, unitObj, buildingObj, selected_entities,
                   tile_type, probe, tile_building, tile_unit, camera_x, camera_y, zoom_level,
                   spawning_swordsman, building_to_place, placement_preview,
                   win_message_shown, resources, ticks, spawns, placements>>

\* ---------------------------------------------------------- map queries
\* A call of a query of GameMap from outside the engine: the arguments and the
\* tile returned are recorded, and nothing else changes.
Query(call, x, y, tile) ==
    /\ probe' = [call |-> call, x |-> x, y |-> y, tile |-> tile]
    /\ last' = call
    /\ UNCHANGED <<entities, units, buildings, unitObj, buildingObj, selected_entities,
                   tile_type, tile_building, tile_unit, camera_x, camera_y, zoom_level,
                   paused, spawning_swordsman, building_to_place, placement_preview,
                   win_message_shown, resources, ticks, spawns, placements>>

\* game_map.get_tile_at(x, y)
QueryTileAt(x, y) == Query("get_tile_at", x, y, GetTileAt(x, y))

\* game_map.get_tile_at_screen_pos(x, y) with the default zoom 1 and camera (0, 0)
QueryScreenPos(x, y) ==
    Query("get_tile_at_screen_pos", x, y, GetTileAtScreenPos(x * Res, y * Res, 10, 0, 0))

\* An entity constructed on tile (tx, ty) (Entity.__init__, lines 18-20: its
\* world position) and the tile its position resolves to.
QueryEntityTile(tx, ty) ==
    Query("entity_tile", tx, ty, GetTileAtScreenPos(IsoX(tx, ty), IsoY(tx, ty), 10, 0, 0))

\* ------------------------------------------------- calls on single objects
\* Unit.move_to(target_pos), the target in pixels.
MoveTo(u, target) ==
    /\ unitObj' = [unitObj EXCEPT ![u].target_pos = <<target[1] * Res, target[2] * Res>>]
    /\ last' = "move_to"
    /\ UNCHANGED <<entities, units, buildings, buildingObj, selected_entities, tile_type, probe,
                   tile_building, tile_unit, camera_x, camera_y, zoom_level, paused,
                   spawning_swordsman, building_to_place, placement_preview,
                   win_message_shown, resources, ticks, spawns, placements>>

\* Unit.update() on a unit the engine has not updated yet: all_units defaults to
\* the empty list and the unit has no all_buildings attribute.
UpdateAlone(u) ==
    /\ unitObj' = UnitUpdate(unitObj, buildingObj, u, << >>, << >>)[1]
    /\ last' = "update"
    /\ UNCHANGED <<entities, units, buildings, buildingObj, selected_entities, tile_type, probe,
                   tile_building, tile_unit, camera_x, camera_y, zoom_level, paused,
                   spawning_swordsman, building_to_place, placement_preview,
                   win_message_shown, resources, ticks, spawns, placements>>

\* ResourceManager.add_resource
AddResource(res, resource_type, amount) ==
    [res EXCEPT ![resource_type] = @ + amount]

\* ResourceManager.remove_resource: <<resources, returned value>>.
RemoveResource(res, resource_type, amount) ==
    IF res[resource_type] >= amount
    THEN <<[res EXCEPT ![resource_type] = @ - amount], TRUE>>
    ELSE <<res, FALSE>>

\* ResourceManager.can_afford over costs.items(), a sequence of <<type, cost>>.
CanAfford(res, costs) ==
    \A i \in 1..Len(costs) : ~(res[costs[i][1]] < costs[i][2])

\* The loop of lines 55-56 from item i on.
RECURSIVE RemoveCosts(_, _, _)
RemoveCosts(res, costs, i) ==
    IF i > Len(costs) THEN res
    ELSE RemoveCosts(RemoveResource(res, costs[i][1], costs[i][2])[1], costs, i + 1)

\* ResourceManager.pay_costs without the can_afford test of line 54.
PayCostsUnchecked(res, costs) == <<RemoveCosts(res, costs, 1), TRUE>>

\* ResourceManager.pay_costs: <<resources, returned value>>.
PayCosts(res, costs) ==
    IF CanAfford(res, costs) THEN <<RemoveCosts(res, costs, 1), TRUE>> ELSE <<res, FALSE>>

\* A call on self.resource_manager that leaves the rest of the engine alone.
Treasury(res, name) ==
    /\ resources' = res
    /\ last' = name
    /\ UNCHANGED <<entities, units, buildings, unitObj, buildingObj, selected_entities,
                   tile_type, probe, tile_building, tile_unit, camera_x, camera_y, zoom_level,
                   paused, spawning_swordsman, building_to_place, placement_preview,
                   win_message_shown, ticks, spawns, placements>>

\* ------------------------------------------------------------------ Init
\* GameEngine.__init__, lines 48-82: the four buildings, none with a stockpile.
InitialBuildings ==
    << NewBuilding(9, 13, "Stonekeep", FALSE), NewBuilding(11, 13, "Stockpile", FALSE),
       NewBuilding(65, 5, "EnemyStonekeep", FALSE), NewBuilding(61, 5, "Stockpile", FALSE) >>

\* Lines 52, 57-59, 75, 80-82: a keep marks its origin tile only, a stockpile
\* its four tiles.
InitialTileBuilding ==
    [t \in {<<9, 13>>, <<65, 5>>} \cup {<<sx, 13>> : sx \in 11..14}
           \cup {<<sx, 5>> : sx \in 61..64} |->
        IF t = <<9, 13>> THEN BuildingId(1)
        ELSE IF t[2] = 13 THEN BuildingId(2)
        ELSE IF t = <<65, 5>> THEN BuildingId(3)
        ELSE BuildingId(4)]

\* Lines 85-93: the tiles of the five enemy swordsmen.
EnemySpawnTiles == << <<56, 5>>, <<59, 5>>, <<57, 4>>, <<57, 7>>, <<59, 7>> >>

\* Lines 60-69: the mountains the engine puts on the generated map.
ForcedMountains == {<<15, 13>>, <<9, 19>>, <<65, 11>>}

\* GameMap.generate_map is random.  Of the generated terrain the model keeps the
\* tiles its commands can build on; a forest may grow on any grass tile.
Terrains ==
    { [t \in ForcedMountains |-> "MOUNTAIN"],
      [t \in ForcedMountains \cup {<<8, 12>>} |->
          IF t \in ForcedMountains THEN "MOUNTAIN" ELSE "FOREST"] }

\* center_camera, lines 122-129: the top point of the middle tile (zoom 1.0).
CenterCameraX == (ScreenWidth \div 2) - IsoX(MapWidth \div 2, MapHeight \div 2) \div Res
CenterCameraY ==
    (ScreenHeight \div 2) - (IsoY(MapWidth \div 2, MapHeight \div 2) \div Res - TileStepY)

\* The camera positions a behaviour starts from: the one set by __init__, and
\* two that the arrow keys reach from it while the roster is still as built
\* (a tick then changes nothing but the camera): near the player's keep and
\* near the enemy swordsmen.
Cameras == {<<CenterCameraX, CenterCameraY>>, <<100, 64>>, <<-500, -316>>}

Init ==
    /\ entities = <<BuildingId(1), BuildingId(2), BuildingId(3), BuildingId(4)>>
                     \o [i \in 1..Len(EnemySpawnTiles) |-> UnitId(i)]
    /\ units = [i \in 1..Len(EnemySpawnTiles) |-> UnitId(i)]
    /\ buildings = <<BuildingId(1), BuildingId(2), BuildingId(3), BuildingId(4)>>
    /\ unitObj = [u \in {UnitId(i) : i \in 1..Len(EnemySpawnTiles)} |->
                     LET t == EnemySpawnTiles[u[2]]
                     IN NewUnit(IsoX(t[1], t[2]), IsoY(t[1], t[2]), "Swordsman", "enemy")]
    /\ buildingObj = [b \in {BuildingId(i) : i \in 1..Len(InitialBuildings)} |->
                         InitialBuildings[b[2]]]
    /\ selected_entities = << >>
    /\ tile_type \in Terrains
    /\ tile_building = InitialTileBuilding
    /\ tile_unit = [t \in Range(EnemySpawnTiles) |->
                       UnitId(CHOOSE i \in 1..Len(EnemySpawnTiles) : EnemySpawnTiles[i] = t)]
    /\ \E c \in Cameras : camera_x = c[1] /\ camera_y = c[2]
    /\ zoom_level = 10
    /\ paused = FALSE
    /\ spawning_swordsman = FALSE
    /\ building_to_place = NoType
    /\ placement_preview = None
    /\ win_message_shown = FALSE
    /\ resources = [k \in {"GOLD", "WOOD", "STONE", "FOOD"} |->
                       IF k \in {"GOLD", "FOOD"} THEN 1000 ELSE 500]
    /\ probe = None
    /\ last = "init"
    /\ ticks = 0
    /\ spawns = 0
    /\ placements = 0

\* ------------------------------------------------------------------ Next
\* The player's input is bounded: the player acts (clicks, presses Escape) only
\* between every CmdPeriod-th tick and the next, and clicks only the screen
\* points named below.
ActNow == ticks % CmdPeriod = 0

\* Screen points on the Swordsman and the Farm button.
SwordsmanButton == <<240, 60>>
FarmButton == <<240, 20>>

\* Screen points on the map.  With the camera at (-500, -316):
BattlePoint == <<632, 344>>    \* tile (56, 5), where the first enemy swordsman stands
\* With the camera at (100, 64):
SiegePoint == <<296, 208>>     \* tile (4, 1)
FieldPoint == <<424, 240>>     \* tile (7, 0)
KeepPoint == <<104, 496>>      \* tile (10, 13), inside the 2x2 footprint of the Stonekeep
MeadowPoint == <<72, 448>>     \* tile (8, 12)
MountainPoint == <<264, 576>>  \* tile (15, 13), a mountain
OffMapPoint == <<1279, 0>>     \* no tile

PlainTerrain == [t \in ForcedMountains |-> "MOUNTAIN"]

InitBattle == Init /\ camera_x = -500 /\ camera_y = -316 /\ tile_type = PlainTerrain
InitHome == Init /\ camera_x = 100 /\ camera_y = 64
InitField == InitHome /\ tile_type = PlainTerrain

\* The battle at the enemy camp: the player spawns swordsmen on the tile of an
\* enemy swordsman and may pause the game.
NextBattle ==
    \/ Tick({}, BattlePoint)
    \/ ActNow /\ KeyEscape
    \/ ActNow /\ LeftClick(SwordsmanButton, SwordsmanButton)
    \/ ActNow /\ LeftClick(BattlePoint, BattlePoint)

SpecBattle == InitBattle /\ [][NextBattle]_vars

\* The siege: the player spawns swordsmen on tile (4, 1).
NextSiege ==
    \/ Tick({}, SiegePoint)
    \/ ActNow /\ LeftClick(SwordsmanButton, SwordsmanButton)
    \/ ActNow /\ LeftClick(SiegePoint, SiegePoint)

SpecSiege == InitField /\ [][NextSiege]_vars

\* Building: the player places farms around the keep, or cancels.
PlacePoints == {KeepPoint, MeadowPoint, MountainPoint, OffMapPoint}

NextPlace ==
    \/ \E mouse \in {KeepPoint, OffMapPoint} : Tick({}, mouse)
    \/ ActNow /\ LeftClick(FarmButton, FarmButton)
    \/ ActNow /\ \E pos \in PlacePoints : LeftClick(pos, pos)
    \/ ActNow /\ RightClick(MeadowPoint)

SpecPlace == InitHome /\ [][NextPlace]_vars

\* Marching: the player spawns a swordsman on tile (7, 0), selects it by
\* dragging a rectangle around it and sends it to a point.
DragStart == <<300, 150>>
DragEnd == <<350, 200>>
Destinations == {<<229, 112>>, <<254, 152>>}

CanMarch == spawning_swordsman => spawns < MaxMarchers

NextMarch ==
    \/ Tick({}, FieldPoint)
    \/ ActNow /\ LeftClick(SwordsmanButton, SwordsmanButton)
    \/ ActNow /\ CanMarch /\ LeftClick(FieldPoint, FieldPoint)
    \/ ActNow /\ CanMarch /\ LeftClick(DragStart, DragEnd)
    \/ ActNow /\ CanMarch /\ \E pos \in Destinations : RightClick(pos)

SpecMarch == InitField /\ [][NextMarch]_vars

\* The approach to the enemy camp: with the camera at (-500, -316) the player
\* spawns swordsmen on tile (52, 12), west of the camp and within the aggro
\* range of three of the five enemy swordsmen, and on tile (63, 0), east of it
\* and within the aggro range of four; two enemies have both tiles in range.
WestPoint == <<284, 400>>
EastPoint == <<1020, 384>>
AggroPoints == {WestPoint, EastPoint}

NextAggro ==
    \/ Tick({}, WestPoint)
    \/ ActNow /\ LeftClick(SwordsmanButton, SwordsmanButton)
    \/ ActNow /\ CanMarch /\ \E pos \in AggroPoints : LeftClick(pos, pos)

SpecAggro == InitBattle /\ [][NextAggro]_vars

\* Obstacles: before the first tick the player spawns swordsmen on tile (7, 0),
\* selects them and sends them to a point behind the rectangle that Unit.update
\* uses for the EnemyStonekeep, (65, 5) to (193, 133).
ObstaclePoint == <<200, 112>>

NextObstacle ==
    \/ Tick({}, FieldPoint)
    \/ ticks = 0 /\ LeftClick(SwordsmanButton, SwordsmanButton)
    \/ ticks = 0 /\ CanMarch /\ LeftClick(FieldPoint, FieldPoint)
    \/ ticks = 0 /\ CanMarch /\ LeftClick(DragStart, DragEnd)
    \/ ticks = 0 /\ CanMarch /\ RightClick(ObstaclePoint)

SpecObstacle == InitField /\ [][NextObstacle]_vars

\* The estate: the player places farms and barracks on two meadows and lets
\* the ticks run.
BarracksButton == <<60, 60>>
PasturePoint == <<104, 400>>   \* tile (7, 10)
EstatePoints == {MeadowPoint, PasturePoint}

NextEstate ==
    \/ Tick({}, OffMapPoint)
    \/ ActNow /\ LeftClick(FarmButton, FarmButton)
    \/ ActNow /\ LeftClick(BarracksButton, BarracksButton)
    \/ ActNow /\ \E pos \in EstatePoints : LeftClick(pos, pos)

SpecEstate == InitField /\ [][NextEstate]_vars

\* Drill: a fresh swordsman on tile (7, 0) is given a destination with move_to
\* and updated on its own until it arrives.
DrillTargets ==
    {<<224 + dx, 112 + dy>> : dx \in {-12, -5, 0, 7, 16}, dy \in {-9, 0, 4, 12}}
        \ {<<224, 112>>}

Fresh(u) ==
    /\ unitObj[u].team = "player"
    /\ unitObj[u].target_pos = None
    /\ unitObj[u].x = IsoX(7, 0) /\ unitObj[u].y = IsoY(7, 0)

NextDrill ==
    \/ LeftClick(SwordsmanButton, SwordsmanButton)
    \/ (spawning_swordsman => spawns < MaxDrillUnits) /\ LeftClick(FieldPoint, FieldPoint)
    \/ \E u \in Range(units), target \in DrillTargets : Fresh(u) /\ MoveTo(u, target)
    \/ \E u \in Range(units) : unitObj[u].team = "player" /\ UpdateAlone(u)

SpecDrill == InitField /\ [][NextDrill]_vars

\* The edge of the map: with the camera at (100, 64) a swordsman on tile (0, 0)
\* is drawn at the screen point (100, 64), and a click there resolves to no tile.
\* The scenario is the clicks of one frame, before the next update.
OriginPoint == <<200, 128>>    \* tile (0, 0)
EdgePoint == <<100, 64>>       \* no tile
EdgeClicks == {OriginPoint, EdgePoint, MountainPoint}

NextEdge ==
    \/ LeftClick(SwordsmanButton, SwordsmanButton)
    \/ LeftClick(FarmButton, FarmButton)
    \/ CanMarch /\ \E pos \in EdgeClicks : LeftClick(pos, pos)
    \/ CanMarch /\ RightClick(EdgePoint)

SpecEdge == InitField /\ [][NextEdge]_vars

\* The stockpile: calls of add_resource, remove_resource and pay_costs with
\* these amounts and cost maps (the items of a dict, in order).
StockTypes == {"GOLD", "WOOD"}
Amounts == {400, 700}
CostMaps ==
    { << >>,
      << <<"GOLD", 400>> >>,
      << <<"GOLD", 700>>, <<"WOOD", 400>> >>,
      << <<"WOOD", 700>>, <<"GOLD", 400>> >>,
      << <<"WOOD", 400>>, <<"GOLD", 1200>> >> }

NextTreasury ==
    \/ \E k \in StockTypes, amount \in Amounts :
          /\ resources[k] + amount <= MaxStock
          /\ Treasury(AddResource(resources, k, amount), "add_resource")
    \/ \E k \in StockTypes, amount \in Amounts :
          Treasury(RemoveResource(resources, k, amount)[1], "remove_resource")
    \/ \E costs \in CostMaps : Treasury(PayCosts(resources, costs)[1], "pay_costs")

SpecTreasury == InitField /\ [][NextTreasury]_vars

\* The duel: the player spawns swordsmen on the tile of an enemy swordsman
\* before the first tick and never pauses; the main loop keeps calling update.
AtStart == ticks = 0

NextDuel ==
    \/ Tick({}, BattlePoint)
    \/ AtStart /\ LeftClick(SwordsmanButton, SwordsmanButton)
    \/ AtStart /\ LeftClick(BattlePoint, BattlePoint)

\* GameEngine.run calls update in every frame.  In the duel the game is never
\* paused, so the steps that advance ticks are exactly the calls of update, and
\* one is possible exactly while ticks < MaxTicks.
UpdateCalled == ticks < MaxTicks /\ ticks' = ticks + 1

SpecDuel == InitBattle /\ [][NextDuel]_vars /\ WF_ticks(UpdateCalled)

\* The survey: the map is queried at tile coordinates around its borders, at
\* pixel positions around the origin, and at the position of every tile; the
\* queries are independent, so a behaviour makes one.
SurveyTiles == ((0 - MaxProbe)..MaxProbe) \cup ((MapWidth - MaxProbe)..(MapWidth + MaxProbe))
SurveyPixels == {-70, -33, -32, -31, -10, -1, 0, 1, 10, 31, 32, 33, 70}

NextSurvey ==
    \/ probe = None /\ \E x \in SurveyTiles, y \in SurveyTiles : QueryTileAt(x, y)
    \/ probe = None /\ \E x \in SurveyPixels, y \in SurveyPixels : QueryScreenPos(x, y)
    \/ probe = None /\ \E tx \in 0..(MapWidth - 1), ty \in 0..(MapHeight - 1) :
          QueryEntityTile(tx, ty)

SpecSurvey == InitField /\ [][NextSurvey]_vars

\* Commands at the enemy camp, all before the first tick: with the camera at
\* (-500, -316) the player spawns swordsmen on the tile of the first enemy
\* swordsman, drags a rectangle around that tile, presses the Farm button and
\* releases over the units of that tile, and clicks right on tile (50, 17);
\* in the first tick the D key may be held down.
CampDragStart == <<1100, 630>>
CampDragEnd == <<1160, 690>>
CampUnitPoint == <<1132, 660>>

CanCommand == spawning_swordsman => spawns < MaxDrillUnits

NextCommand ==
    \/ Tick({}, BattlePoint)
    \/ AtStart /\ Tick({"d"}, BattlePoint)
    \/ AtStart /\ LeftClick(SwordsmanButton, SwordsmanButton)
    \/ AtStart /\ CanCommand /\ LeftClick(BattlePoint, BattlePoint)
    \/ AtStart /\ CanCommand /\ LeftClick(CampDragStart, CampDragEnd)
    \/ AtStart /\ LeftClick(FarmButton, CampUnitPoint)
    \/ AtStart /\ CanCommand /\ RightClick(MeadowPoint)

SpecCommand == InitBattle /\ [][NextCommand]_vars

\* The chase: with the camera at (-500, -316) the player spawns swordsmen on
\* tile (56, 8), 64 px west of the nearest enemy swordsman, before the first
\* tick and gives no command; the main loop keeps calling update.
ChasePoint == <<540, 400>>

NextChase ==
    \/ Tick({}, ChasePoint)
    \/ AtStart /\ LeftClick(SwordsmanButton, SwordsmanButton)
    \/ AtStart /\ CanMarch /\ LeftClick(ChasePoint, ChasePoint)

SpecChase == InitBattle /\ [][NextChase]_vars /\ WF_ticks(UpdateCalled)

\* A fault: the player places farms before the first tick, and in the first of
\* every CmdPeriod ticks the update of any one unit of the roster may raise.
NextFault ==
    \/ Tick({}, OffMapPoint)
    \/ AtStart /\ LeftClick(FarmButton, FarmButton)
    \/ AtStart /\ LeftClick(MeadowPoint, MeadowPoint)
    \/ ActNow /\ \E k \in 1..Len(entities) :
          IsUnit(entities[k]) /\ TickFailing({}, OffMapPoint, k)

SpecFault == InitField /\ [][NextFault]_vars

\* Every camera, terrain and input of the scenarios above.
Next ==
    \/ NextBattle \/ NextSiege \/ NextPlace \/ NextMarch
    \/ NextDrill \/ NextEdge \/ NextTreasury \/ NextDuel \/ NextSurvey
    \/ NextObstacle \/ NextEstate \/ NextAggro \/ NextFault \/ NextCommand
    \/ NextChase

Spec == Init /\ [][Next]_vars

\* ---------------------------------------------------------------- claims
HealthOf(e) == IF IsUnit(e) THEN unitObj[e].health ELSE buildingObj[e].health

\* The tile a world position (in 1/Res pixels) maps to.
WorldTile(x, y) == GetTileAtScreenPos(x, y, 10, 0, 0)

\* The tiles a building covers: width and height in tiles from its origin.
Footprint(b) ==
    {<<buildingObj[b].x + dx, buildingObj[b].y + dy>> :
        dx \in 0..(Max(1, buildingObj[b].width \div TileSize) - 1),
        dy \in 0..(Max(1, buildingObj[b].height \div TileSize) - 1)}

LivingEnemySwordsmen ==
    {u \in Range(units) : /\ unitObj[u].unit_type = "Swordsman"
                          /\ unitObj[u].team = "enemy"
                          /\ unitObj[u].health > 0}

\* C1: at the end of every unpaused tick no unit or building with health zero
\* or below is left in entities, units or buildings, and no tile refers to one.
C1_DeadAreRemoved ==
    (last = "tick" /\ ~paused) =>
        /\ \A e \in Range(entities) \cup Range(units) \cup Range(buildings) : HealthOf(e) > 0
        /\ \A t \in DOMAIN tile_unit : HealthOf(tile_unit[t]) > 0
        /\ \A t \in DOMAIN tile_building : HealthOf(tile_building[t]) > 0

\* C2: in every reachable state every unit of the roster has a health between
\* zero and its max_health.
C2_UnitHealthInRange ==
    \A u \in Range(units) :
        0 <= unitObj[u].health /\ unitObj[u].health <= unitObj[u].max_health

\* C3: in every reachable state every building of the roster has a health
\* between zero and its max_health.
C3_BuildingHealthInRange ==
    \A b \in Range(buildings) :
        0 <= buildingObj[b].health /\ buildingObj[b].health <= buildingObj[b].max_health

C5_WonIffNoLivingEnemy == win_message_shown <=> LivingEnemySwordsmen = {}

\* The tick that set the flag: the last enemy swordsmen fell in it and are
\* still in the roster.
C5_Witness ==
    /\ win_message_shown
    /\ last = "tick"
    /\ \E u \in Range(units) : unitObj[u].team = "enemy" /\ unitObj[u].health <= 0

\* C6: a call of GameEngine.update while paused leaves the units, the
\* buildings, the roster, the tile references and the stockpile as they were.
C6_PausedTickFreezes ==
    [][(paused /\ last' = "tick") =>
          UNCHANGED <<entities, units, buildings, unitObj, buildingObj,
                      tile_building, tile_unit, resources>>]_vars

\* GameEngine.update has run on a paused game with player swordsmen in the field.
C6_Witness ==
    /\ paused
    /\ last = "tick"
    /\ \E u \in Range(units) : unitObj[u].team = "player"

\* C7: a tile's unit reference names a unit whose world position maps to the
\* tile, and a tile's building reference a building whose footprint covers it.
C7_TileRefsCoverEntity ==
    /\ \A t \in DOMAIN tile_unit :
          WorldTile(unitObj[tile_unit[t]].x, unitObj[tile_unit[t]].y) = t
    /\ \A t \in DOMAIN tile_building : t \in Footprint(tile_building[t])

\* C8: no two buildings of the roster have overlapping footprints.
C8_NoOverlap ==
    \A a, b \in Range(buildings) : a # b => Footprint(a) \cap Footprint(b) = {}

\* The origins and sizes can_build_at is probed with: around the player's keep,
\* the mountain at (15, 13) and the edges of the map.
ProbeX == {-1} \cup (7..16) \cup {MapWidth - 1, MapWidth}
ProbeY == {-1} \cup (11..14) \cup {MapHeight - 1, MapHeight}
ProbeSize == 0..MaxProbe

Covered(x, y, width, height) ==
    {<<x + dx, y + dy>> : dx \in 0..(width - 1), dy \in 0..(height - 1)}

Buildable(t) ==
    /\ t[1] \in 0..(MapWidth - 1)
    /\ t[2] \in 0..(MapHeight - 1)
    /\ (t \in DOMAIN tile_type => tile_type[t] = "GRASS")
    /\ t \notin DOMAIN tile_building

\* C9: can_build_at(x, y, w, h) is true if and only if every tile it covers is
\* inside the map, is GRASS and has no building reference.
C9_CanBuildAtIffAllFree ==
    \A x \in ProbeX, y \in ProbeY, width \in ProbeSize, height \in ProbeSize :
        CanBuildAt(x, y, width, height)
            <=> \A t \in Covered(x, y, width, height) : Buildable(t)

\* The player has built on tile (8, 12): can_build_at refuses that tile, a 2x2
\* footprint holding the mountain, and one reaching over the edge of the map,
\* and accepts a free 2x2 footprint.
C9_Witness ==
    /\ <<8, 12>> \in DOMAIN tile_building
    /\ ~CanBuildAt(8, 12, 1, 1)
    /\ ~CanBuildAt(15, 12, 2, 2)
    /\ ~CanBuildAt(MapWidth - 1, 12, 2, 1)
    /\ CanBuildAt(7, 10, 2, 2)

\* A unit with a destination no farther than its speed away.
Arriving(u) ==
    /\ unitObj[u].target_pos # None
    /\ Dist2(unitObj[u].x, unitObj[u].y,
             unitObj[u].target_pos[1], unitObj[u].target_pos[2]) <= Sq(unitObj[u].speed)

\* C10: a unit with a destination no farther than its speed away, and no combat
\* in the tick, is at the destination exactly after its update and has no
\* destination any more.
C10_ArrivalSnaps ==
    [][(~paused /\ last' = "tick") =>
          \A u \in Range(units) :
              (/\ Arriving(u)
               /\ \A v \in Range(units) : unitObj'[v].health = unitObj[v].health
               /\ \A b \in Range(buildings) :
                     buildingObj'[b].health = buildingObj[b].health)
              => /\ unitObj'[u].x = unitObj[u].target_pos[1]
                 /\ unitObj'[u].y = unitObj[u].target_pos[2]
                 /\ unitObj'[u].target_pos = None]_vars

\* A unit with a destination farther than its speed away.
EnRoute(u) ==
    /\ unitObj[u].target_pos # None
    /\ Dist2(unitObj[u].x, unitObj[u].y,
             unitObj[u].target_pos[1], unitObj[u].target_pos[2]) > Sq(unitObj[u].speed)

\* C11: a unit updated with empty unit and building lists and a destination
\* farther away than its speed moves by speed (to the resolution of positions,
\* 1/Res pixel per coordinate) along the segment toward the destination, the
\* distance to the destination strictly decreases, and the destination is still
\* set.
C11_StepTowardDestination ==
    \A u \in Range(units) :
        EnRoute(u) =>
            LET old == unitObj[u]
                new == UnitUpdate(unitObj, buildingObj, u, << >>, << >>)[1][u]
                dx == old.target_pos[1] - old.x
                dy == old.target_pos[2] - old.y
                sx == new.x - old.x
                sy == new.y - old.y
            IN /\ Sq(old.speed - 2) <= Sq(sx) + Sq(sy)
               /\ Sq(sx) + Sq(sy) <= Sq(old.speed + 2)
               /\ Abs(dx * sy - dy * sx) <= Abs(dx) + Abs(dy)
               /\ dx * sx + dy * sy > 0
               /\ Dist2(new.x, new.y, old.target_pos[1], old.target_pos[2])
                     < Dist2(old.x, old.y, old.target_pos[1], old.target_pos[2])
               /\ new.target_pos = old.target_pos

\* A unit that has been updated on its way and is still farther than one step
\* from its destination.
C11_Witness ==
    /\ last = "update"
    /\ \E u \in Range(units) : EnRoute(u) /\ ~(unitObj[u].x = IsoX(7, 0) /\ unitObj[u].y = IsoY(7, 0))

\* The opposing units closer than the melee radius to unit U.
Foes(U) ==
    {V \in Range(units) :
        /\ V # U
        /\ unitObj[V].team # unitObj[U].team
        /\ Sq(unitObj[U].x - unitObj[V].x) + Sq(unitObj[U].y - unitObj[V].y)
              < Sq(attack_range * Res)}

RECURSIVE SumAttack(_)
SumAttack(S) ==
    IF S = {} THEN 0
    ELSE LET V == CHOOSE V \in S : TRUE
         IN unitObj[V].attack_damage + SumAttack(S \ {V})

\* C12: within the update of unit U, each opposing unit V closer than the melee
\* radius loses U.attack_damage * 0.1 and nothing else of V changes, U loses
\* V.attack_damage * 0.05 for each such V (its health then clamped at 0), and
\* every other unit is left as it was.  Health has a resolution of 1/Res, so a
\* loss is exact to less than one unit of it.
C12_MeleeExchange ==
    \A U \in Range(units) :
        LET after == UnitUpdate(unitObj, buildingObj, U, units, buildings)[1]
            n == Cardinality(Foes(U))
            owed == SumAttack(Foes(U)) * SelfDamagePct * Res
            low == Max(0, 100 * unitObj[U].health - owed)
            high == Max(0, 100 * unitObj[U].health - owed + 99 * n)
        IN /\ \A V \in Foes(U) :
                 /\ Abs(100 * (unitObj[V].health - after[V].health)
                          - unitObj[U].attack_damage * UnitDamagePct * Res) < 100
                 /\ [after[V] EXCEPT !.health = unitObj[V].health] = unitObj[V]
           /\ low <= 100 * after[U].health /\ 100 * after[U].health <= high
           /\ \A W \in Range(units) \ (Foes(U) \cup {U}) : after[W] = unitObj[W]

\* A tick has run with two opposing units in melee, and both have lost health.
C12_Witness ==
    /\ last = "tick"
    /\ \E U \in Range(units) :
          /\ unitObj[U].team = "player"
          /\ unitObj[U].health < UnitHealth * Res
          /\ \E V \in Foes(U) : unitObj[V].health < UnitHealth * Res

\* C13: the world position of every tile (tx, ty) of the map, given to
\* get_tile_at_screen_pos with zoom 1 and camera (0, 0), resolves to the tile
\* (tx, ty).
C13_TileRoundTrip ==
    probe # None /\ probe.call = "entity_tile" => probe.tile = <<probe.x, probe.y>>

\* The round trip of the far corner of the map.
C13_Witness ==
    /\ probe # None /\ probe.call = "entity_tile"
    /\ probe.x = MapWidth - 1 /\ probe.y = MapHeight - 1
    /\ probe.tile = <<MapWidth - 1, MapHeight - 1>>

\* The tile of a position in pixels when both tile coordinates are rounded
\* toward negative infinity: floor((x/32 + y/16)/2) = floor((x + 2y)/64).
FloorTile(x, y) ==
    LET tx == (x + 2 * y) \div (2 * TileStepX)
        ty == (2 * y - x) \div (2 * TileStepX)
    IN IF 0 <= tx /\ tx < MapWidth /\ 0 <= ty /\ ty < MapHeight THEN <<tx, ty>> ELSE None

\* C14: with zoom 1 and camera (0, 0), get_tile_at_screen_pos resolves every
\* point to the tile of the floored coordinates, and to none when a floored
\* coordinate is outside the map.
C14_FloorsTileCoordinates ==
    probe # None /\ probe.call = "get_tile_at_screen_pos"
        => probe.tile = FloorTile(probe.x, probe.y)

\* C15: get_tile_at(x, y) is the tile (x, y) when 0 <= x < width and
\* 0 <= y < height and none for every other pair of integers.
C15_GetTileAtBounds ==
    probe # None /\ probe.call = "get_tile_at"
          => probe.tile = IF /\ probe.x \in 0..(MapWidth - 1)
                             /\ probe.y \in 0..(MapHeight - 1)
                          THEN <<probe.x, probe.y>> ELSE None

\* A query just outside the corner of the map, answered with none.
C15_Witness ==
    /\ probe # None /\ probe.call = "get_tile_at"
    /\ probe.x = MapWidth /\ probe.y = -1
    /\ probe.tile = None

\* The clicks probed at the edge of the map.
EdgeProbes == EdgeClicks \cup {OffMapPoint}

\* C16: a spawn command (a click of either button in spawn mode, the right
\* button only without a selection) whose position resolves to no tile spawns
\* nothing: the roster, the unit list, the occupancy of every tile and every
\* existing unit are as before.
C16_OffMapSpawnsNothing ==
    \A pos \in EdgeProbes, button \in {1, 3} :
        (/\ spawning_swordsman
         /\ ~(button = 3 /\ selected_entities # << >>)
         /\ TileUnderMouse(pos, zoom_level, camera_x, camera_y) = None)
        => LET E == HandleMouseClick(Engine, pos, button)
           IN /\ E.entities = entities
              /\ E.units = units
              /\ E.tu = tile_unit
              /\ E.tb = tile_building
              /\ E.uo = unitObj

\* A spawn click has resolved to no tile, with a unit already on the map.
C16_Witness ==
    /\ last = "spawn_missed"
    /\ ~spawning_swordsman
    /\ spawns > 0 /\ <<0, 0>> \in DOMAIN tile_unit

\* A left click at pos is a placement click that cannot be placed: it resolves
\* to no tile, or the footprint around its tile fails can_build_at.
Unplaceable(pos) ==
    /\ ~spawning_swordsman
    /\ placement_preview # None /\ building_to_place # NoType
    /\ LET tile == TileUnderMouse(pos, zoom_level, camera_x, camera_y)
           width == Max(1, buildingObj[placement_preview].width \div TileSize)
           height == Max(1, buildingObj[placement_preview].height \div TileSize)
       IN \/ tile = None
          \/ ~CanBuildAt(tile[1] - (width \div 2), tile[2] - (height \div 2), width, height)

\* C17: a placement left-click that cannot be placed changes nothing: no
\* building, tile occupancy, roster, unit or selection changes, and
\* building_to_place and the preview stay set.
C17_RefusedPlacementKeepsAll ==
    \A pos \in EdgeProbes :
        Unplaceable(pos) => HandleMouseClick(Engine, pos, 1) = Engine

\* The quantity pay_costs has to deduct from a resource: the cost of that type
\* in the cost map, 0 when it has none.
RECURSIVE CostOf(_, _, _)
CostOf(costs, k, i) ==
    IF i > Len(costs) THEN 0
    ELSE (IF costs[i][1] = k THEN costs[i][2] ELSE 0) + CostOf(costs, k, i + 1)

\* C18: pay_costs either returns true with every component cost deducted (and
\* does so exactly when every component is covered), or returns false with
\* every quantity unchanged; and no quantity is negative after any sequence of
\* add_resource, remove_resource and pay_costs with non-negative amounts.
C18_PayCostsAtomic ==
    /\ \A k \in DOMAIN resources : resources[k] >= 0
    /\ \A costs \in CostMaps :
          LET paid == PayCosts(resources, costs)
              covered == \A i \in 1..Len(costs) : resources[costs[i][1]] >= costs[i][2]
          IN /\ paid[2] <=> covered
             /\ \/ /\ paid[2]
                   /\ \A k \in DOMAIN resources :
                         paid[1][k] = resources[k] - CostOf(costs, k, 1)
                \/ /\ ~paid[2]
                   /\ paid[1] = resources

\* After a payment the stock covers one component of a two-component cost and
\* not the other: the payment that must be refused whole.
C18_Witness ==
    /\ last = "pay_costs"
    /\ resources["WOOD"] >= 400 /\ resources["GOLD"] < 1200
    /\ ~PayCosts(resources, << <<"WOOD", 400>>, <<"GOLD", 1200>> >>)[2]

\* The ticks have begun (the player spawns no more) and the one player unit of
\* the unit list has one enemy unit closer than the melee radius.
InMelee ==
    /\ ticks > 0
    /\ \E p \in Range(units) :
          /\ unitObj[p].team = "player"
          /\ \A q \in Range(units) : unitObj[q].team = "player" => q = p
          /\ Cardinality(Foes(p)) = 1

\* A unit whose health is zero and that is in neither the roster nor the unit
\* list nor the back-reference of any tile.
Fallen(u) ==
    /\ unitObj[u].health = 0
    /\ u \notin Range(entities)
    /\ u \notin Range(units)
    /\ \A t \in DOMAIN tile_unit : tile_unit[t] # u

\* C19: once the one player unit and one enemy unit are within the melee radius
\* and the game is not paused, the repeated ticks eventually bring the health of
\* a unit to zero, and that unit is removed from the roster, the unit list and
\* its tile's back-reference.
C19_DuelEnds == InMelee ~> (\E u \in DOMAIN unitObj : Fallen(u))

\* The lone player swordsman has fallen and is gone.
C19_Witness ==
    /\ spawns = 1
    /\ \E u \in DOMAIN unitObj : unitObj[u].team = "player" /\ Fallen(u)

\* The unit whose update comes first in a tick: the first unit of the roster.
FirstUnit == SeqFilter(entities, Range(units))[1]

\* C20: the health of a unit never increases in a step: the update of a unit
\* (here of the one updated first in the coming tick, on the state the tick
\* starts from) leaves every unit with at most the health it had.
C20_HealthNeverIncreases ==
    (~paused /\ units # << >>) =>
        LET after == UnitUpdate(unitObj, buildingObj, FirstUnit, units, buildings)[1]
        IN \A u \in DOMAIN unitObj : after[u].health <= unitObj[u].health

\* C21: when the update of a unit returns, the health of that unit is at least
\* zero, and exactly zero when the damage it had received before the update or
\* receives in it is at least its health.
C21_OwnHealthNotNegative ==
    \A U \in Range(units) :
        LET after == UnitUpdate(unitObj, buildingObj, U, units, buildings)[1]
            n == Cardinality(Foes(U))
            owed == SumAttack(Foes(U)) * SelfDamagePct * Res
        IN /\ after[U].health >= 0
           /\ 100 * unitObj[U].health + 99 * n <= owed => after[U].health = 0

\* A unit of the unit list was left with negative health by the last tick: its
\* next update returns with health 0.
C21_Witness ==
    /\ last = "tick"
    /\ \E U \in Range(units) :
          /\ unitObj[U].health < 0
          /\ UnitUpdate(unitObj, buildingObj, U, units, buildings)[1][U].health = 0

\* The roster processed from its last entity to its first.
Reversed(list) == [i \in 1..Len(list) |-> list[Len(list) + 1 - i]]

\* C22: the state after the update loop of an unpaused tick (positions, health,
\* destinations and the entities collected for removal) does not depend on the
\* order in which the entities are processed.
C22_OrderIndependent ==
    ~paused =>
        LET uo == EnemyTargeting(unitObj, units)
            forth == UpdateAll(entities, uo, buildingObj, resources)
            back == UpdateAll(Reversed(entities), uo, buildingObj, resources)
        IN /\ forth.uo = back.uo
           /\ forth.bo = back.bo
           /\ forth.to_remove = back.to_remove
           /\ forth.to_remove_buildings = back.to_remove_buildings

\* The point (x, y) is at least min_dist from every unit but U and at least
\* unit_radius from the rectangle of every building.
Clear(U, x, y) ==
    /\ \A V \in Range(units) \ {U} :
          Dist2(x, y, unitObj[V].x, unitObj[V].y) >= Sq(min_dist * Res)
    /\ \A b \in Range(buildings) : RectDist2(x, y, buildingObj[b]) >= Sq(unit_radius * Res)

\* C23: the update of a unit commits a step only to a position at distance
\* >= 28 from every other unit and >= 16 from the rectangle of every building;
\* when the candidate position of a unit with a destination farther than its
\* speed fails either check, the unit stays exactly where it was and its
\* destination is cleared.
C23_StepOnlyIfClear ==
    \A U \in Range(units) :
        LET old == unitObj[U]
            new == UnitUpdate(unitObj, buildingObj, U, units, buildings)[1][U]
        IN /\ (new.x # old.x \/ new.y # old.y) => Clear(U, new.x, new.y)
           /\ (old.target_pos # None /\ EnRoute(U)) =>
                 LET dx == old.target_pos[1] - old.x
                     dy == old.target_pos[2] - old.y
                     distance == Isqrt(Sq(dx) + Sq(dy))
                     next_x == StepCoord(old.x, dx, distance, old.speed)
                     next_y == StepCoord(old.y, dy, distance, old.speed)
                 IN ~Clear(U, next_x, next_y) =>
                       /\ new.x = old.x /\ new.y = old.y
                       /\ new.target_pos = None

\* The candidate step of a unit en route is refused.
Refused(U) ==
    /\ EnRoute(U)
    /\ LET new == UnitUpdate(unitObj, buildingObj, U, units, buildings)[1][U]
       IN new.x = unitObj[U].x /\ new.y = unitObj[U].y /\ new.target_pos = None

\* A lone unit has walked up to the rectangle of a building and its next step
\* is refused; elsewhere a unit is refused because of another unit.
C23_Witness ==
    /\ last = "tick"
    /\ spawns = 1
    /\ \E U \in Range(units) :
          /\ unitObj[U].team = "player"
          /\ unitObj[U].x < IsoX(7, 0)
          /\ Refused(U)

\* The update of unit U, on the heaps uo and bo, struck a unit or a building:
\* one of them has less health in the result r.
Struck(U, uo, bo, r) ==
    \/ \E V \in Range(units) \ {U} : r[1][V].health < uo[V].health
    \/ \E b \in Range(buildings) : r[2][b].health < bo[b].health

\* C24: in the update of a unit, as the tick calls it after the targeting
\* phase, combat and movement exclude each other: when the update strikes a
\* unit or a building, the unit's position is what it was and its destination
\* is unset; the position changes only in updates that strike nothing.
C24_CombatExcludesMovement ==
    \A U \in Range(units) :
        LET uo == EnemyTargeting(unitObj, units)
            r == UnitUpdate(uo, buildingObj, U, units, buildings)
            moved == r[1][U].x # uo[U].x \/ r[1][U].y # uo[U].y
        IN /\ Struck(U, uo, buildingObj, r) => ~moved /\ r[1][U].target_pos = None
           /\ moved => ~Struck(U, uo, buildingObj, r)

\* An enemy unit that the targeting phase sends to a player unit is in melee
\* with it.
C24_Witness ==
    /\ last = "tick"
    /\ \E U \in Range(units) :
          /\ unitObj[U].team = "enemy"
          /\ EnemyTargeting(unitObj, units)[U].target_pos # None
          /\ Foes(U) # {}

\* The naming rule: a building is hostile to a player unit if its type name
\* contains "enemy", and to an enemy unit if it does not.
Hostile(team, building_type) ==
    IF team = "player" THEN building_type = "EnemyStonekeep"
    ELSE building_type # "EnemyStonekeep"

\* C25: the update of a unit reduces the health of a building only if the
\* building is hostile to the unit under the naming rule.
C25_OnlyHostileBuildingsDamaged ==
    \A U \in Range(units) :
        LET r == UnitUpdate(unitObj, buildingObj, U, units, buildings)
        IN \A b \in Range(buildings) :
              r[2][b].health < buildingObj[b].health
                  => Hostile(unitObj[U].team, buildingObj[b].building_type)

\* A player unit stands in the rectangles of both keeps; the ticks have damaged
\* the EnemyStonekeep and not the player's Stonekeep.
C25_Witness ==
    /\ last = "tick"
    /\ \E U \in Range(units), own \in Range(buildings), foe \in Range(buildings) :
          /\ unitObj[U].team = "player"
          /\ buildingObj[own].building_type = "Stonekeep"
          /\ buildingObj[foe].building_type = "EnemyStonekeep"
          /\ RectDist2(unitObj[U].x, unitObj[U].y, buildingObj[own]) = 0
          /\ RectDist2(unitObj[U].x, unitObj[U].y, buildingObj[foe]) = 0
          /\ buildingObj[own].health = BuildingHealth * Res
          /\ buildingObj[foe].health < BuildingHealth * Res

\* Squared distance from (px, py) to the closest point of the rectangle of
\* building b in world coordinates: its corner is the world position of its
\* tile, (IsoX, IsoY), as for a unit.
WorldRectDist2(px, py, b) ==
    LET wx == IsoX(b.x, b.y)
        wy == IsoY(b.x, b.y)
        closest_x == Min(Max(px, wx), wx + b.width * Res)
        closest_y == Min(Max(py, wy), wy + b.height * Res)
    IN Dist2(px, py, closest_x, closest_y)

\* C26: the update of a unit damages a hostile building exactly when the unit
\* is at most the contact radius (16) from the closest point of the building's
\* rectangle in world coordinates.
C26_DamageIffWorldContact ==
    \A U \in Range(units) :
        LET r == UnitUpdate(unitObj, buildingObj, U, units, buildings)
        IN \A b \in Range(buildings) :
              Hostile(unitObj[U].team, buildingObj[b].building_type) =>
                  (r[2][b].health < buildingObj[b].health
                      <=> WorldRectDist2(unitObj[U].x, unitObj[U].y, buildingObj[b])
                             <= Sq(unit_radius * Res))

\* A production building attached to a stockpile, and what it produces.
Producer(b) ==
    /\ buildingObj[b].building_type \in {"Woodcutter", "Quarry", "Farm"}
    /\ buildingObj[b].resource_manager

Yield(b) ==
    CASE buildingObj[b].building_type = "Woodcutter" -> "WOOD"
      [] buildingObj[b].building_type = "Quarry" -> "STONE"
      [] buildingObj[b].building_type = "Farm" -> "FOOD"

\* The heap bo and the stock res are what n updates of building b make of the
\* current state, and so are the results of all further updates up to MaxTicks:
\* with the timer now at t, the building has credited 10 * floor((t + n) / 30)
\* of its resource and nothing else, and its timer is (t + n) mod 30.
RECURSIVE CreditsRight(_, _, _, _)
CreditsRight(bo, res, b, n) ==
    LET t == buildingObj[b].resource_timer
    IN /\ res = [resources EXCEPT
                    ![Yield(b)] = @ + ProductionAmount * ((t + n) \div ProductionPeriod)]
       /\ bo[b].resource_timer = (t + n) % ProductionPeriod
       /\ n < MaxTicks =>
             LET r == BuildingUpdate(bo, res, b)
             IN CreditsRight(r[1], r[2], b, n + 1)

C28_BuildingUpdateFrame ==
    \A b \in Range(buildings) :
        LET r == BuildingUpdate(buildingObj, resources, b)
        IN /\ \A c \in DOMAIN buildingObj :
                 /\ r[1][c].health = buildingObj[c].health
                 /\ r[1][c].x = buildingObj[c].x /\ r[1][c].y = buildingObj[c].y
           /\ ~Producer(b) => r[1] = buildingObj /\ r[2] = resources

\* A barracks attached to the stockpile has been placed and updated, with the
\* stock as it was at the start.
C28_Witness ==
    /\ last = "tick"
    /\ \E b \in Range(buildings) :
          /\ buildingObj[b].building_type = "Barracks"
          /\ buildingObj[b].resource_manager
          /\ buildingObj[b].resource_timer = 0
    /\ \A b \in Range(buildings) : buildingObj[b].building_type # "Farm"
    /\ resources["WOOD"] = 500

PlayerUnits == {p \in Range(units) : unitObj[p].team = "player"}
EnemyUnits == {e \in Range(units) : unitObj[e].team = "enemy"}
Apart2(e, p) == Dist2(unitObj[e].x, unitObj[e].y, unitObj[p].x, unitObj[p].y)
InAggroRange(e) == {p \in PlayerUnits : Apart2(e, p) < Sq(400 * Res)}

\* C29: the targeting phase gives every enemy unit with a player unit at a
\* distance below 400 the position of a player unit at minimal distance as its
\* destination, leaves every enemy unit without one as it was (it targets
\* nobody at 400 or more), and changes no player unit.
C29_TargetsNearestInRange ==
    LET after == EnemyTargeting(unitObj, units)
    IN /\ \A e \in EnemyUnits :
             IF InAggroRange(e) # {}
             THEN \E p \in InAggroRange(e) :
                     /\ \A q \in PlayerUnits : Apart2(e, p) <= Apart2(e, q)
                     /\ after[e] = [unitObj[e] EXCEPT
                                       !.target_pos = <<unitObj[p].x, unitObj[p].y>>]
             ELSE after[e] = unitObj[e]
       /\ \A p \in DOMAIN unitObj : p \notin EnemyUnits => after[p] = unitObj[p]

\* After a tick with a player unit on either side of the camp, an enemy with
\* both within 400 is on its way to the nearer one, and an enemy with one of
\* them at 400 or more is on its way to the other.
C29_Witness ==
    /\ last = "tick"
    /\ \E e \in EnemyUnits : \E p, q \in InAggroRange(e) :
          /\ Apart2(e, p) < Apart2(e, q)
          /\ unitObj[e].target_pos = <<unitObj[p].x, unitObj[p].y>>
    /\ \E e \in EnemyUnits : \E p \in InAggroRange(e) :
          /\ PlayerUnits \ InAggroRange(e) # {}
          /\ unitObj[e].target_pos = <<unitObj[p].x, unitObj[p].y>>

\* C30: an enemy unit keeps no target from an earlier tick: when the targeting
\* phase of a tick is over and the updates begin, the destination of every
\* enemy unit is unset or is the position of a nearest player unit within 400;
\* with no player unit within 400 it is unset.
C30_NoTargetKept ==
    LET after == EnemyTargeting(unitObj, units)
    IN \A e \in EnemyUnits :
          \/ after[e].target_pos = None
          \/ \E p \in InAggroRange(e) :
                /\ \A q \in PlayerUnits : Apart2(e, p) <= Apart2(e, q)
                /\ after[e].target_pos = <<unitObj[p].x, unitObj[p].y>>

\* C31: get_screen_pos of every building of the roster and of the placement
\* preview returns the transform of its current position,
\* ((x - y) * 32 * z, (x + y) * 16 * z), also after the position has changed.
C31_ScreenPosOfCurrentPosition ==
    \A b \in Range(buildings) \cup (IF placement_preview # None
                                    THEN {placement_preview} ELSE {}) :
        GetScreenPos(buildingObj[b], zoom_level)
            = << (IsoX(buildingObj[b].x, buildingObj[b].y) * zoom_level) \div 10,
                 (IsoY(buildingObj[b].x, buildingObj[b].y) * zoom_level) \div 10 >>

\* The tile that contains the world point (pos - camera) / zoom: the camera
\* subtracted and the zoom divided out once, then the isometric inverse.
WorldPointTile(pos) ==
    GetTileAtScreenPos(pos[1] * Res, pos[2] * Res, zoom_level, camera_x, camera_y)

\* C32: a spawn click or a placement click at screen point p resolves to the
\* tile that contains the world point (p - camera) / zoom: the new swordsman
\* stands on that tile, the new building has its origin there.
C32_ClickResolvesWorldPoint ==
    \A pos \in {SiegePoint, FieldPoint, MeadowPoint} :
        LET E == HandleMouseClick(Engine, pos, 1)
            tile == WorldPointTile(pos)
        IN /\ spawning_swordsman /\ E.spawns > spawns =>
                 /\ tile # None
                 /\ E.uo[E.units[Len(E.units)]].x = IsoX(tile[1], tile[2])
                 /\ E.uo[E.units[Len(E.units)]].y = IsoY(tile[1], tile[2])
           /\ ~spawning_swordsman /\ E.placements > placements =>
                 /\ tile # None
                 /\ E.bo[E.buildings[Len(E.buildings)]].x = tile[1]
                 /\ E.bo[E.buildings[Len(E.buildings)]].y = tile[2]

C34_RightClickCancels ==
    \A pos \in {MeadowPoint, BattlePoint} :
        (/\ placement_preview # None /\ building_to_place # NoType
         /\ TileUnderMouse(pos, zoom_level, camera_x, camera_y) # None) =>
            LET E == HandleMouseClick(Engine, pos, 3)
            IN /\ E.btp = NoType /\ E.preview = None
               /\ E.buildings = buildings /\ E.entities = entities
               /\ \A u \in Range(units) : E.uo[u].target_pos = unitObj[u].target_pos

NoRepeats(list) == Cardinality(Range(list)) = Len(list)

\* C35: the typed lists agree with the roster: units holds exactly the units
\* of entities and buildings exactly the buildings of entities, each once.
C35_TypedListsAgree ==
    /\ Range(units) = {e \in Range(entities) : IsUnit(e)}
    /\ Range(buildings) = {e \in Range(entities) : IsBuilding(e)}
    /\ NoRepeats(entities) /\ NoRepeats(units) /\ NoRepeats(buildings)

\* A swordsman has been spawned, a building placed and a unit removed.
C35_Witness ==
    /\ spawns > 0 /\ placements > 0
    /\ \E u \in DOMAIN unitObj : u \notin Range(entities)
    /\ \E b \in Range(buildings) : buildingObj[b].resource_manager

\* C36: every tile's unit reference and building reference that is set refers
\* to an entity of the roster: no tile refers to a removed entity.
C36_NoDanglingTileRefs ==
    /\ \A t \in DOMAIN tile_unit : tile_unit[t] \in Range(units)
    /\ \A t \in DOMAIN tile_building : tile_building[t] \in Range(buildings)
    /\ Range(units) \cup Range(buildings) \subseteq Range(entities)

\* The swordsmen spawned on tile (56, 5) have been removed, and the tile, which
\* referred to the last of them, refers to no unit.
C36_Witness ==
    /\ spawns > 0
    /\ \A u \in Range(units) : unitObj[u].team = "enemy"
    /\ <<56, 5>> \notin DOMAIN tile_unit

IsSelected(e) == IF IsUnit(e) THEN unitObj[e].selected ELSE buildingObj[e].selected

\* C37: the selection is consistent with the roster: every entity of
\* selected_entities is in the roster and has selected = true, and every entity
\* of the roster with selected = true is in selected_entities; a unit removed
\* on death is no longer selected.
C37_SelectionInRoster ==
    /\ \A e \in Range(selected_entities) : e \in Range(entities) /\ IsSelected(e)
    /\ \A e \in Range(entities) : IsSelected(e) => e \in Range(selected_entities)

\* C38: player commands act only on player units: neither a right click, with
\* whatever selection a drag has made, nor a tick's W, A, S, D movement of the
\* selection changes the destination or the position of an enemy unit.
C38_CommandsSpareEnemies ==
    \A e \in EnemyUnits :
        LET clicked == HandleMouseClick(Engine, MeadowPoint, 3).uo[e]
            pushed == WasdMove(unitObj, selected_entities, {"d"})[e]
        IN /\ clicked.target_pos = unitObj[e].target_pos
           /\ clicked.x = unitObj[e].x /\ clicked.y = unitObj[e].y
           /\ pushed = unitObj[e]

\* C39: a unit whose health is zero or below when its update starts deals no
\* damage: its update, here on the state the coming tick's loop starts from,
\* lowers the health of no other unit and of no building.
C39_DeadUnitsDealNoDamage ==
    LET start == EnemyTargeting(unitObj, units)
    IN \A U \in Range(units) :
          start[U].health <= 0 =>
              LET after == UnitUpdate(start, buildingObj, U, units, buildings)
              IN /\ \A v \in Range(units) \ {U} : after[1][v].health = start[v].health
                 /\ \A b \in Range(buildings) : after[2][b].health = buildingObj[b].health

\* Is unit o at least r pixels away from the segment between units e and p?
\* Beside the segment the distance is |cross| / length, compared without the
\* division and with the length rounded up.
OffTheLine(o, e, p, r) ==
    LET abx == unitObj[p].x - unitObj[e].x
        aby == unitObj[p].y - unitObj[e].y
        aox == unitObj[o].x - unitObj[e].x
        aoy == unitObj[o].y - unitObj[e].y
        dot == aox * abx + aoy * aby
        len2 == Sq(abx) + Sq(aby)
    IN IF dot <= 0 THEN Apart2(o, e) >= Sq(r * Res)
       ELSE IF dot >= len2 THEN Apart2(o, p) >= Sq(r * Res)
       ELSE Abs(aox * aby - aoy * abx) >= r * Res * (Isqrt(len2) + 1)

\* Enemy unit e has the living player unit p, which has no destination, within
\* 400, no other unit within 28 of the line between them and no building's
\* rectangle within reach of it.
Chasing(e, p) ==
    /\ unitObj[e].health > 0 /\ unitObj[p].health > 0
    /\ unitObj[p].target_pos = None
    /\ Apart2(e, p) < Sq(400 * Res)
    /\ \A o \in Range(units) \ {e, p} : OffTheLine(o, e, p, 28)
    /\ \A b \in Range(buildings) :
          RectDist2(unitObj[e].x, unitObj[e].y, buildingObj[b]) > 4 * Sq(400 * Res)

\* The n-th enemy unit is chasing the m-th unit, a player unit.
ChasingPair(n, m) ==
    \E e \in EnemyUnits \cap {UnitId(n)} : \E p \in PlayerUnits \cap {UnitId(m)} :
        Chasing(e, p)

\* It is so, and the ticks that are left suffice for the way at its speed.
ChaseBegins(n, m) ==
    \E e \in EnemyUnits \cap {UnitId(n)} : \E p \in PlayerUnits \cap {UnitId(m)} :
        /\ Chasing(e, p)
        /\ Apart2(e, p) < Sq(unitObj[e].speed * (MaxTicks - ticks))

\* The n-th enemy unit is within 30 of the m-th unit.
InMeleeRange(n, m) ==
    \E e \in EnemyUnits \cap {UnitId(n)} : \E p \in PlayerUnits \cap {UnitId(m)} :
        Apart2(e, p) < Sq(30 * Res)

\* The chase of the m-th unit by the n-th has ended: it is no longer as above.
ChaseBroken(n, m) == \A e \in EnemyUnits \cup PlayerUnits : ~ChasingPair(n, m)

\* C40: an enemy unit with a stationary living player unit within 400 and
\* nothing within collision distance of the line between them, with ticks
\* enough left for the way, eventually comes within 30 of it, unless the
\* line is obstructed, the player unit moves or one of the two dies first;
\* its own separation check against the target does not stop it short.
C40_ChaseReachesMelee ==
    \A n \in 1..5 : \A m \in 6..(5 + MaxMarchers) :
        ChaseBegins(n, m) ~> (InMeleeRange(n, m) \/ ChaseBroken(n, m))

\* An enemy that set out 64 px from the player's swordsman has walked up to it
\* and is within 30 of it, and they are fighting.
C40_Witness ==
    /\ ticks > 0
    /\ \E e \in EnemyUnits, p \in PlayerUnits :
          /\ Chasing(e, p)
          /\ Apart2(e, p) < Sq(30 * Res)
          /\ Apart2(e, p) >= Sq(28 * Res)
          /\ unitObj[p].x = IsoX(56, 8) /\ unitObj[p].y = IsoY(56, 8)
          /\ unitObj[p].health < unitObj[p].max_health

====
